---- MODULE Spec2Model ----
(***************************************************************************)
(* A model of the limit-order matching engine of book_order_simulator:     *)
(* Order, PriceLevel, OrderBook and MatchingEngine.                        *)
(*                                                                         *)
(* Orders are heap objects shared through std::shared_ptr: the model keeps *)
(* them in the sequence objs and refers to them by their index (a handle), *)
(* so that the order index (orders_) and the level queues can alias one    *)
(* object, exactly as the two containers of shared_ptr do.                 *)
(*                                                                         *)
(* book_mutex_ is taken and released inside each OrderBook method, so      *)
(* every OrderBook method is one atomic step; what MatchingEngine does     *)
(* between two OrderBook calls is done without any lock and is a step of   *)
(* its own.  Spec runs whole calls one at a time; SpecConc interleaves     *)
(* the steps of calls issued by several threads.                           *)
(*                                                                         *)
(* ThreadPool (the record pool) and main() with parseArguments (the record *)
(* cli) are modelled beside the engine, each with a specification of its   *)
(* own that leaves the variables of the others alone.  The CSV trade log   *)
(* (the record csv: flag, file and the owner of csv_mutex_) is off in      *)
(* every specification but SpecCsv, as the constructor leaves it.          *)
(***************************************************************************)
EXTENDS Integers, Sequences, FiniteSets, TLC

\* ------------------------------------------------------------------ bounds
MaxOrders == 3      \* Order objects ever submitted
MaxPrice == 2       \* prices are 1..MaxPrice
MaxQty == 2         \* original quantities are 1..MaxQty
MaxId == 3          \* order ids a caller may choose are 1..MaxId
MaxTs == 2          \* timestamps a caller may stamp are 1..MaxTs
NumThreads == 2     \* producer threads of SpecConc
MaxCalls == 2       \* calls each thread issues in SpecConc
MaxSinkFail == 2    \* the sink calls of one submitOrder that may raise
MaxBookCalls == 3   \* submitOrder and cancelOrder calls between two clear()
MaxLevels == 2      \* getMarketDepth and toString are asked for 0..MaxLevels
NumWorkers == 2     \* worker threads of the ThreadPool
NumClients == 2     \* threads that call the ThreadPool; client 1 owns it
MaxTasks == 3       \* tasks handed to submit and submitDetached
MaxArgs == 4        \* command-line arguments after the program name

\* uint64_t arithmetic wraps; TLC integers are 32 bits wide, so the model
\* wraps at a narrower word.  No sum of the model comes near it: only a
\* subtraction below zero wraps, as it does in the program.
UintMod == 2^16

Sides == {"BUY", "SELL"}
Prices == 1..MaxPrice
Quantities == 1..MaxQty
Ids == 1..MaxId
Timestamps == 1..MaxTs
Threads == 1..NumThreads

\* a null shared_ptr<Order>
NoOrder == 0

VARIABLES
    objs,           \* the Order objects ever constructed, by handle
    bids_,          \* OrderBook::bids_  : price -> PriceLevel
    asks_,          \* OrderBook::asks_  : price -> PriceLevel
    orders_,        \* OrderBook::orders_: id -> handle
    trades_,        \* MatchingEngine::trades_
    trade_count_,   \* MatchingEngine::trade_count_
    total_volume_,  \* MatchingEngine::total_volume_
    total_value_,   \* MatchingEngine::total_value_
    threads,        \* per thread: position in submitOrder and its locals
    calls,          \* history of the calls issued in SpecConc
    duplicate_accepted, \* history: an order was submitted under an id that
                        \* the index held at that moment
    trade_callback_, \* MatchingEngine::trade_callback_: a sink is installed
    order_callback_, \* MatchingEngine::order_callback_: a sink is installed
    events,         \* what the installed sinks were called with, in order,
                    \* since the latest call began
    last,           \* history: the latest call, its argument and its result
    cancelled,      \* history: the orders cancelOrder found under the id it
                    \* was given and took out of the index
    moments,        \* history, per thread inside getSpread: the price sets
                    \* of the two sides the book has held since the thread
                    \* read the best bid
    pool,           \* the ThreadPool: queue, stop flag, counters, workers
    cli,            \* the process of main(): arguments, position, exit
    csv             \* MatchingEngine's CSV log: csv_logging_enabled_, csv_file_
                    \* and the thread that owns csv_mutex_

vars == <<objs, bids_, asks_, orders_, trades_, trade_count_, total_volume_,
          total_value_, threads, calls, duplicate_accepted, trade_callback_,
          order_callback_, events, last, cancelled, moments, pool, cli, csv>>

\* ------------------------------------------------------------- arithmetic
Min(a, b) == IF a < b THEN a ELSE b

UAdd(a, b) == (a + b) % UintMod

USub(a, b) == (a - b + UintMod) % UintMod

UMul(a, b) == (a * b) % UintMod

SetMax(S) == CHOOSE x \in S : \A y \in S : y <= x

SetMin(S) == CHOOSE x \in S : \A y \in S : x <= y

\* ------------------------------------------------------------------ Order
Order(id, side, price, quantity, timestamp) ==
    [id |-> id, side |-> side, price |-> price, quantity |-> quantity,
     remaining_quantity |-> quantity, timestamp |-> timestamp]

isFilled(o) == o.remaining_quantity = 0

reduceQuantity(o, qty) ==
    LET actual_reduction == Min(qty, o.remaining_quantity)
    IN  [o EXCEPT !.remaining_quantity = o.remaining_quantity - actual_reduction]

\* ------------------------------------------------------------- PriceLevel
PriceLevel(p) == [price |-> p, total_quantity |-> 0, orders |-> <<>>]

PL_addOrder(level, h, O) ==
    [level EXCEPT !.orders = Append(level.orders, h),
                  !.total_quantity = UAdd(level.total_quantity,
                                          O[h].remaining_quantity)]

\* position of the first order of the queue carrying order_id, 0 when none
PL_find(level, order_id, O) ==
    LET hits == {i \in 1..Len(level.orders) : O[level.orders[i]].id = order_id}
    IN  IF hits = {} THEN 0 ELSE SetMin(hits)

SeqErase(s, i) == [j \in 1..(Len(s) - 1) |-> IF j < i THEN s[j] ELSE s[j + 1]]

PL_removeOrder(level, order_id, O) ==
    LET i == PL_find(level, order_id, O)
    IN  IF i = 0
        THEN [level |-> level, removed |-> FALSE]
        ELSE [level |-> [level EXCEPT
                            !.total_quantity =
                                USub(level.total_quantity,
                                     O[level.orders[i]].remaining_quantity),
                            !.orders = SeqErase(level.orders, i)],
              removed |-> TRUE]

PL_updateQuantity(level, old_qty, new_qty) ==
    [level EXCEPT !.total_quantity =
                      UAdd(USub(level.total_quantity, old_qty), new_qty)]

PL_isEmpty(level) == level.orders = <<>>

\* -------------------------------------------------------------- OrderBook
\* std::map / std::unordered_map as functions on the set of keys present
MapPut(m, k, v) == [x \in (DOMAIN m) \cup {k} |-> IF x = k THEN v ELSE m[x]]

MapErase(m, k) == [x \in (DOMAIN m) \ {k} |-> m[x]]

EmptyMap == [x \in {} |-> 0]

\* The engine state the operations below transform: the values of objs,
\* bids_, asks_, orders_, trades_ and the three statistics counters.
getPriceLevelMap(S, side) == IF side = "BUY" THEN S.bids_ ELSE S.asks_

setPriceLevelMap(S, side, price_map) ==
    IF side = "BUY" THEN [S EXCEPT !.bids_ = price_map]
                    ELSE [S EXCEPT !.asks_ = price_map]

addOrder(S, h) ==
    LET order == S.objs[h]
        S1 == [S EXCEPT !.orders_ = MapPut(S.orders_, order.id, h)]
        price_map == getPriceLevelMap(S1, order.side)
        level == IF order.price \in DOMAIN price_map
                 THEN price_map[order.price]
                 ELSE PriceLevel(order.price)
    IN  setPriceLevelMap(S1, order.side,
            MapPut(price_map, order.price, PL_addOrder(level, h, S1.objs)))

removeEmptyPriceLevel(S, side, price) ==
    LET price_map == getPriceLevelMap(S, side)
    IN  IF price \in DOMAIN price_map /\ PL_isEmpty(price_map[price])
        THEN setPriceLevelMap(S, side, MapErase(price_map, price))
        ELSE S

\* cancelOrder leaving the id in the index
cancelOrder_KeepIndex(S, order_id) ==
    IF order_id \notin DOMAIN S.orders_
    THEN [S |-> S, cancelled |-> FALSE]
    ELSE
        LET order == S.objs[S.orders_[order_id]]
            price_map == getPriceLevelMap(S, order.side)
            S1 == IF order.price \in DOMAIN price_map
                  THEN LET r == PL_removeOrder(price_map[order.price],
                                               order_id, S.objs)
                           S0 == setPriceLevelMap(S, order.side,
                                     MapPut(price_map, order.price, r.level))
                       IN  IF r.removed /\ PL_isEmpty(r.level)
                           THEN removeEmptyPriceLevel(S0, order.side, order.price)
                           ELSE S0
                  ELSE S
        IN  [S |-> S1, cancelled |-> TRUE]

\* OrderBook::cancelOrder: the state it leaves and the value it returns
cancelOrder(S, order_id) ==
    IF order_id \notin DOMAIN S.orders_
    THEN [S |-> S, cancelled |-> FALSE]
    ELSE
        LET order == S.objs[S.orders_[order_id]]
            price_map == getPriceLevelMap(S, order.side)
            S1 == IF order.price \in DOMAIN price_map
                  THEN LET r == PL_removeOrder(price_map[order.price],
                                               order_id, S.objs)
                           S0 == setPriceLevelMap(S, order.side,
                                     MapPut(price_map, order.price, r.level))
                       IN  IF r.removed /\ PL_isEmpty(r.level)
                           THEN removeEmptyPriceLevel(S0, order.side, order.price)
                           ELSE S0
                  ELSE S
        IN  [S |-> [S1 EXCEPT !.orders_ = MapErase(S1.orders_, order_id)],
             cancelled |-> TRUE]

\* getOrdersForMatching returning the worst level of the side
getOrdersForMatching_WorstLevel(S, side) ==
    LET price_map == getPriceLevelMap(S, side)
    IN  IF DOMAIN price_map = {} THEN <<>>
        ELSE IF side = "BUY"
             THEN price_map[SetMin(DOMAIN price_map)].orders
             ELSE price_map[SetMax(DOMAIN price_map)].orders

getOrdersForMatching(S, side) ==
    LET price_map == getPriceLevelMap(S, side)
    IN  IF DOMAIN price_map = {} THEN <<>>
        ELSE IF side = "BUY"
             THEN price_map[SetMax(DOMAIN price_map)].orders
             ELSE price_map[SetMin(DOMAIN price_map)].orders

\* OrderBook::getBestBid: the highest bid price, 0 when there is no bid
getBestBid(S) == IF DOMAIN S.bids_ = {} THEN 0 ELSE SetMax(DOMAIN S.bids_)

\* OrderBook::getBestAsk: the lowest ask price, 0 when there is no ask
getBestAsk(S) == IF DOMAIN S.asks_ = {} THEN 0 ELSE SetMin(DOMAIN S.asks_)

\* OrderBook::getSpread, with no other thread running: two reads, 0 when
\* either reads 0, else the uint64_t difference
getSpread(S) ==
    LET best_bid == getBestBid(S)
        best_ask == getBestAsk(S)
    IN  IF best_bid = 0 \/ best_ask = 0 THEN 0 ELSE USub(best_ask, best_bid)

\* the loops of getMarketDepth: the first levels entries of a price map,
\* walked from its highest key (rbegin) or from its lowest (begin), as pairs
\* (price, total_quantity)
RECURSIVE WalkLevels(_, _, _, _)
WalkLevels(price_map, keys, levels, from_highest) ==
    IF levels = 0 \/ keys = {} THEN <<>>
    ELSE LET p == IF from_highest THEN SetMax(keys) ELSE SetMin(keys)
         IN  <<<<p, price_map[p].total_quantity>>>> \o
             WalkLevels(price_map, keys \ {p}, levels - 1, from_highest)

\* getMarketDepth walking the bids from the lowest price
getMarketDepth_BidsAscending(S, levels) == [bid_levels |-> WalkLevels(S.bids_, DOMAIN S.bids_, levels, FALSE), ask_levels |-> WalkLevels(S.asks_, DOMAIN S.asks_, levels, FALSE)]

\* OrderBook::getMarketDepth
getMarketDepth(S, levels) ==
    [bid_levels |-> WalkLevels(S.bids_, DOMAIN S.bids_, levels, TRUE),
     ask_levels |-> WalkLevels(S.asks_, DOMAIN S.asks_, levels, FALSE)]

\* a sequence back to front
Reverse(q) == [i \in 1..Len(q) |-> q[Len(q) + 1 - i]]

\* OrderBook::toString, the text it builds once it has the depth and the
\* spread: the asks highest first, the spread line, the bids highest first,
\* the number of indexed orders
toString(S, levels) ==
    LET depth == getMarketDepth(S, levels)
        Line(level) == <<"LEVEL", level[1], level[2]>>
        Lines(q) == [i \in 1..Len(q) |-> Line(q[i])]
    IN  <<<<"ASKS">>>> \o Lines(Reverse(depth.ask_levels))
            \o <<<<"SPREAD", getSpread(S)>>, <<"BIDS">>>>
            \o Lines(depth.bid_levels)
            \o <<<<"Total Orders", Cardinality(DOMAIN S.orders_)>>>>

\* OrderBook::clear
OrderBook_clear(S) ==
    [S EXCEPT !.bids_ = EmptyMap, !.asks_ = EmptyMap, !.orders_ = EmptyMap]

updateOrderQuantity(S, order_id, old_qty, new_qty) ==
    IF order_id \notin DOMAIN S.orders_ THEN S
    ELSE
        LET order == S.objs[S.orders_[order_id]]
            price_map == getPriceLevelMap(S, order.side)
        IN  IF order.price \in DOMAIN price_map
            THEN setPriceLevelMap(S, order.side,
                     MapPut(price_map, order.price,
                            PL_updateQuantity(price_map[order.price],
                                              old_qty, new_qty)))
            ELSE S

\* --------------------------------------------------------- MatchingEngine
OpposingSide(side) == IF side = "BUY" THEN "SELL" ELSE "BUY"

\* the price test of the scan in matchOrder
PriceCompatible(order, opposing_order) ==
    \/ /\ order.side = "BUY"
       /\ opposing_order.side = "SELL"
       /\ order.price >= opposing_order.price
    \/ /\ order.side = "SELL"
       /\ opposing_order.side = "BUY"
       /\ order.price <= opposing_order.price

\* the for loop of matchOrder over opposing_orders, from position i on, with
\* the best_match and best_price found so far
RECURSIVE FindBestMatch(_, _, _, _, _, _)
FindBestMatch(O, h, opposing_orders, i, best_match, best_price) ==
    IF i > Len(opposing_orders)
    THEN [best_match |-> best_match, best_price |-> best_price]
    ELSE
        LET o == opposing_orders[i]
        IN  IF isFilled(O[o])
            THEN FindBestMatch(O, h, opposing_orders, i + 1, best_match, best_price)
            ELSE
                LET price_compatible == PriceCompatible(O[h], O[o])
                    price2 == IF price_compatible THEN O[o].price ELSE best_price
                    match2 == IF /\ price_compatible
                                 /\ \/ best_match = NoOrder
                                    \/ O[o].timestamp < O[best_match].timestamp
                              THEN o ELSE best_match
                IN  FindBestMatch(O, h, opposing_orders, i + 1, match2, price2)

\* The order at the head of the queue of the best level of a side: the
\* resting order with price-time priority.  Recorded with each trade (fields
\* taker, maker and fifo_head are bookkeeping of the model, not of Trade).
FrontOfBest(S, side) ==
    LET q == getOrdersForMatching(S, side)
    IN  IF q = <<>> THEN NoOrder ELSE Head(q)

\* executeTrade adding the price, not price x quantity, to total_value_
executeTrade_ValueIsPrice(S, buy_order, sell_order, trade_price, trade_quantity) ==
    LET swap == S.objs[buy_order].side # "BUY"
        b == IF swap THEN sell_order ELSE buy_order
        s == IF swap THEN buy_order ELSE sell_order
        trade == [buy_order_id |-> S.objs[b].id,
                  sell_order_id |-> S.objs[s].id,
                  price |-> trade_price,
                  quantity |-> trade_quantity,
                  taker |-> buy_order,
                  maker |-> sell_order,
                  fifo_head |-> FrontOfBest(S, S.objs[sell_order].side)]
    IN  [S EXCEPT !.trades_ = Append(S.trades_, trade),
                  !.trade_count_ = UAdd(S.trade_count_, 1),
                  !.total_volume_ = UAdd(S.total_volume_, trade_quantity),
                  !.total_value_ = UAdd(S.total_value_, trade_price)]

executeTrade(S, buy_order, sell_order, trade_price, trade_quantity) ==
    LET swap == S.objs[buy_order].side # "BUY"
        b == IF swap THEN sell_order ELSE buy_order
        s == IF swap THEN buy_order ELSE sell_order
        trade == [buy_order_id |-> S.objs[b].id,
                  sell_order_id |-> S.objs[s].id,
                  price |-> trade_price,
                  quantity |-> trade_quantity,
                  taker |-> buy_order,
                  maker |-> sell_order,
                  fifo_head |-> FrontOfBest(S, S.objs[sell_order].side)]
    IN  [S EXCEPT !.trades_ = Append(S.trades_, trade),
                  !.trade_count_ = UAdd(S.trade_count_, 1),
                  !.total_volume_ = UAdd(S.total_volume_, trade_quantity),
                  !.total_value_ = UAdd(S.total_value_,
                                        UMul(trade_price, trade_quantity))]

\* OrderBook::getOrder: the order the index holds for an id, or null
getOrder(S, order_id) ==
    IF order_id \in DOMAIN S.orders_ THEN S.orders_[order_id] ELSE NoOrder

\* The Trade a sink is handed: the four fields of the Trade object
TradeOf(t) ==
    [buy_order_id |-> t.buy_order_id, sell_order_id |-> t.sell_order_id,
     price |-> t.price, quantity |-> t.quantity]

\* notifyTradeCallback: an installed sink is called with the trade
notifyTradeCallback(S, trade) ==
    IF S.trade_callback_
    THEN [S EXCEPT !.events = Append(@, [sink |-> "trade", trade |-> trade])]
    ELSE S

\* notifyOrderCallback: an installed sink is called with the shared_ptr; what
\* it can read through the pointer is the order as it is at that moment
notifyOrderCallback(S, h) ==
    IF S.order_callback_
    THEN [S EXCEPT !.events =
            Append(@, [sink |-> "order", order |-> h,
                       remaining_quantity |->
                           IF h = NoOrder THEN 0
                           ELSE S.objs[h].remaining_quantity])]
    ELSE S

\* A thread's position in submitOrder/matchOrder and the locals of matchOrder.
\* sink_fail numbers the sink call of this submitOrder that raises (0: none
\* does); result is how the thread's latest submitOrder ended.
IdleThread ==
    [pc |-> "idle", order |-> NoOrder, opposing_orders |-> <<>>,
     best_match |-> NoOrder, best_price |-> 0, trade_quantity |-> 0,
     sink_fail |-> 0, result |-> "none",
     best_bid |-> 0, spread |-> 0, levels |-> 0, text |-> <<>>,
     average |-> 0]

StartSubmit(h) == [IdleThread EXCEPT !.pc = "match", !.order = h]

\* submitOrder returns true
Returned == [IdleThread EXCEPT !.result = "true"]

\* an exception leaves submitOrder
Raised == [IdleThread EXCEPT !.result = "raised"]

\* the thread after a sink call: the call raises when it is the sink_fail-th
\* one, otherwise the thread goes on at pc next
AfterSink(L, next) ==
    IF L.sink_fail = 1 THEN Raised
    ELSE IF next.pc = "idle" \/ L.sink_fail = 0 THEN next
    ELSE [next EXCEPT !.sink_fail = L.sink_fail - 1]

\* matchOrder, loop head: while (!order->isFilled()) and the snapshot of the
\* opposing best level
M_match(S, L) ==
    IF isFilled(S.objs[L.order])
    THEN [S |-> S, L |-> [L EXCEPT !.pc = "rest"]]
    ELSE
        LET opposing_orders ==
                getOrdersForMatching(S, OpposingSide(S.objs[L.order].side))
        IN  IF opposing_orders = <<>>
            THEN [S |-> S, L |-> [L EXCEPT !.pc = "rest"]]
            ELSE [S |-> S,
                  L |-> [L EXCEPT !.pc = "find",
                                  !.opposing_orders = opposing_orders]]

\* M_find taking the last of the candidates that carry the earliest timestamp
M_find_LastOfEqual(S, L) == LET r == FindBestMatch(S.objs, L.order, L.opposing_orders, 1, NoOrder, 0) c == {i \in 1..Len(L.opposing_orders) : ~isFilled(S.objs[L.opposing_orders[i]]) /\ PriceCompatible(S.objs[L.order], S.objs[L.opposing_orders[i]]) /\ S.objs[L.opposing_orders[i]].timestamp = S.objs[r.best_match].timestamp} IN IF r.best_match = NoOrder THEN [S |-> S, L |-> [L EXCEPT !.pc = "rest"]] ELSE [S |-> S, L |-> [L EXCEPT !.pc = "execute", !.best_match = L.opposing_orders[SetMax(c)], !.best_price = r.best_price]]

\* matchOrder: the scan for best_match
M_find(S, L) ==
    LET r == FindBestMatch(S.objs, L.order, L.opposing_orders, 1, NoOrder, 0)
    IN  IF r.best_match = NoOrder
        THEN [S |-> S, L |-> [L EXCEPT !.pc = "rest"]]
        ELSE [S |-> S,
              L |-> [L EXCEPT !.pc = "execute",
                              !.best_match = r.best_match,
                              !.best_price = r.best_price]]

\* where executeTrade goes after its statistics: to the sink when one is
\* installed
AfterExecute(S) == IF S.trade_callback_ THEN "trade_sink" ELSE "reduce"

\* M_execute trading at the incoming order's limit price
M_execute_TakerPrice(S, L) ==
    LET trade_quantity == Min(S.objs[L.order].remaining_quantity,
                              S.objs[L.best_match].remaining_quantity)
    IN  [S |-> executeTrade(S, L.order, L.best_match, S.objs[L.order].price,
                            trade_quantity),
         L |-> [L EXCEPT !.pc = AfterExecute(S),
                         !.trade_quantity = trade_quantity]]

\* matchOrder: trade_quantity and executeTrade up to its statistics
M_execute(S, L) ==
    LET trade_quantity == Min(S.objs[L.order].remaining_quantity,
                              S.objs[L.best_match].remaining_quantity)
    IN  [S |-> executeTrade(S, L.order, L.best_match, L.best_price,
                            trade_quantity),
         L |-> [L EXCEPT !.pc = AfterExecute(S),
                         !.trade_quantity = trade_quantity]]

\* the local variable trade of executeTrade
LocalTrade(S, L) ==
    LET taker == S.objs[L.order]
        maker == S.objs[L.best_match]
    IN  [buy_order_id |-> IF taker.side = "BUY" THEN taker.id ELSE maker.id,
         sell_order_id |-> IF taker.side = "BUY" THEN maker.id ELSE taker.id,
         price |-> L.best_price, quantity |-> L.trade_quantity]

\* executeTrade: notifyTradeCallback(trade)
M_tradeSink(S, L) ==
    [S |-> notifyTradeCallback(S, LocalTrade(S, L)),
     L |-> AfterSink(L, [L EXCEPT !.pc = "reduce"])]

\* M_reduce reducing the incoming order alone
M_reduce_TakerOnly(S, L) ==
    [S |-> [S EXCEPT !.objs[L.order] = reduceQuantity(@, L.trade_quantity)],
     L |-> [L EXCEPT !.pc = "update_taker"]]

\* matchOrder: order->reduceQuantity, best_match->reduceQuantity
M_reduce(S, L) ==
    LET O1 == [S.objs EXCEPT ![L.order] = reduceQuantity(@, L.trade_quantity)]
        O2 == [O1 EXCEPT ![L.best_match] = reduceQuantity(@, L.trade_quantity)]
    IN  [S |-> [S EXCEPT !.objs = O2],
         L |-> [L EXCEPT !.pc = "update_taker"]]

\* matchOrder: updateOrderQuantity for the incoming order
M_updateTaker(S, L) ==
    LET order == S.objs[L.order]
    IN  [S |-> updateOrderQuantity(S, order.id,
                   UAdd(order.remaining_quantity, L.trade_quantity),
                   order.remaining_quantity),
         L |-> [L EXCEPT !.pc = "update_maker"]]

\* matchOrder: updateOrderQuantity for best_match
M_updateMaker(S, L) ==
    LET best_match == S.objs[L.best_match]
    IN  [S |-> updateOrderQuantity(S, best_match.id,
                   UAdd(best_match.remaining_quantity, L.trade_quantity),
                   best_match.remaining_quantity),
         L |-> [L EXCEPT !.pc = "remove_filled"]]

\* matchOrder: back to the loop head, the locals of the iteration gone
LoopHead(L) ==
    [L EXCEPT !.pc = "match", !.opposing_orders = <<>>,
              !.best_match = NoOrder, !.best_price = 0,
              !.trade_quantity = 0]

\* matchOrder: remove a filled best_match from the book
M_removeFilled(S, L) ==
    IF isFilled(S.objs[L.best_match])
    THEN [S |-> cancelOrder(S, S.objs[L.best_match].id).S,
          L |-> IF S.order_callback_ THEN [L EXCEPT !.pc = "filled_sink"]
                                     ELSE LoopHead(L)]
    ELSE [S |-> S, L |-> LoopHead(L)]

\* matchOrder: notifyOrderCallback(best_match) for the filled best_match
M_filledSink(S, L) ==
    [S |-> notifyOrderCallback(S, L.best_match),
     L |-> AfterSink(L, LoopHead(L))]

\* S_rest adding the order to the book whether it is filled or not
S_rest_Always(S, L) ==
    [S |-> addOrder(S, L.order),
     L |-> IF S.order_callback_ THEN [L EXCEPT !.pc = "rest_sink"]
                                ELSE Returned]

\* submitOrder after matchOrder: an order not filled rests in the book
S_rest(S, L) ==
    IF ~isFilled(S.objs[L.order])
    THEN [S |-> addOrder(S, L.order),
          L |-> IF S.order_callback_ THEN [L EXCEPT !.pc = "rest_sink"]
                                     ELSE Returned]
    ELSE [S |-> S, L |-> Returned]

\* submitOrder: notifyOrderCallback(order) for the order that rests
S_restSink(S, L) ==
    [S |-> notifyOrderCallback(S, L.order), L |-> AfterSink(L, Returned)]

\* one step of a thread inside submitOrder
SubmitStep(S, L) ==
    CASE L.pc = "match" -> M_match(S, L)
      [] L.pc = "find" -> M_find(S, L)
      [] L.pc = "execute" -> M_execute(S, L)
      [] L.pc = "trade_sink" -> M_tradeSink(S, L)
      [] L.pc = "reduce" -> M_reduce(S, L)
      [] L.pc = "update_taker" -> M_updateTaker(S, L)
      [] L.pc = "update_maker" -> M_updateMaker(S, L)
      [] L.pc = "remove_filled" -> M_removeFilled(S, L)
      [] L.pc = "filled_sink" -> M_filledSink(S, L)
      [] L.pc = "rest" -> S_rest(S, L)
      [] L.pc = "rest_sink" -> S_restSink(S, L)

\* the steps of submitOrder run by one thread with no other thread running,
\* to the end of the call: the state it leaves and how it ended
RECURSIVE RunCall(_, _)
RunCall(S, L) ==
    IF L.pc = "idle" THEN [S |-> S, L |-> L]
    ELSE LET r == SubmitStep(S, L) IN RunCall(r.S, r.L)

RunSubmit(S, L) == RunCall(S, L).S

\* MatchingEngine::submitOrder, a whole call, for the order object h
submitOrder(S, h) == RunSubmit(S, StartSubmit(h))

\* MatchingEngine::cancelOrder, a whole call: the state it leaves and how it
\* ended, when its sink call raises (sink_fail = 1) or not (0)
cancelCall(S, order_id, sink_fail) ==
    LET r == cancelOrder(S, order_id)
    IN  IF r.cancelled
        THEN [S |-> notifyOrderCallback(r.S, getOrder(r.S, order_id)),
              result |-> IF S.order_callback_ /\ sink_fail = 1
                         THEN "raised" ELSE "true"]
        ELSE [S |-> r.S, result |-> "false"]

engineCancelOrder(S, order_id) == cancelCall(S, order_id, 0).S

\* MatchingEngine::clear_KeepsIndex: the order index survives
clear_KeepsIndex(S) == [OrderBook_clear(S) EXCEPT !.orders_ = S.orders_, !.trades_ = <<>>, !.trade_count_ = 0, !.total_volume_ = 0, !.total_value_ = 0]

\* MatchingEngine::clear
clear(S) ==
    [OrderBook_clear(S) EXCEPT !.trades_ = <<>>, !.trade_count_ = 0,
                               !.total_volume_ = 0, !.total_value_ = 0]

\* ---------------------------------------------------------- specifications

\* no thread is inside getSpread
NoMoments == [t \in Threads |-> {}]

\* the price sets of the two sides as the step leaves them, added to the
\* history of every thread that has read the best bid and not yet the best ask
Observe ==
    moments' = [t \in Threads |->
                   IF threads'[t].pc = "getBestAsk"
                   THEN moments[t] \cup {<<DOMAIN bids_', DOMAIN asks_'>>}
                   ELSE {}]

\* no ThreadPool has been constructed
NoPool == [constructed |-> FALSE]

\* main() is not under study
NoRun == [pc |-> "none"]

\* CSV logging as the constructor leaves it: disabled, no file open, nobody
\* owns csv_mutex_ (0).  rows is what csv_file_ holds.
NoCsv ==
    [csv_logging_enabled_ |-> FALSE, is_open |-> FALSE, rows |-> <<>>,
     csv_mutex_ |-> 0]

\* a step of the engine leaves the thread pool and the process alone
EngineStep == Observe /\ UNCHANGED <<pool, cli, csv>>

Engine ==
    [objs |-> objs, bids_ |-> bids_, asks_ |-> asks_, orders_ |-> orders_,
     trades_ |-> trades_, trade_count_ |-> trade_count_,
     total_volume_ |-> total_volume_, total_value_ |-> total_value_,
     trade_callback_ |-> trade_callback_, order_callback_ |-> order_callback_,
     events |-> events]

Install(S) ==
    /\ objs' = S.objs
    /\ bids_' = S.bids_
    /\ asks_' = S.asks_
    /\ orders_' = S.orders_
    /\ trades_' = S.trades_
    /\ trade_count_' = S.trade_count_
    /\ total_volume_' = S.total_volume_
    /\ total_value_' = S.total_value_
    /\ trade_callback_' = S.trade_callback_
    /\ order_callback_' = S.order_callback_
    /\ events' = S.events

\* no call has been made yet
NoCall == [op |-> "none", arg |-> 0, result |-> "none"]

\* MatchingEngine::MatchingEngine and OrderBook::OrderBook
InitEngine ==
    /\ objs = <<>>
    /\ bids_ = EmptyMap
    /\ asks_ = EmptyMap
    /\ orders_ = EmptyMap
    /\ trades_ = <<>>
    /\ trade_count_ = 0
    /\ total_volume_ = 0
    /\ total_value_ = 0
    /\ threads = [t \in Threads |-> IdleThread]
    /\ calls = <<>>
    /\ duplicate_accepted = FALSE
    /\ trade_callback_ = FALSE
    /\ order_callback_ = FALSE
    /\ events = <<>>
    /\ last = NoCall
    /\ cancelled = {}
    /\ moments = NoMoments
    /\ csv = NoCsv

\* the engine as constructed; no thread pool, no process under study
Init == InitEngine /\ pool = NoPool /\ cli = NoRun

\* the engine with one more Order object constructed by the caller
WithOrder(o) == [Engine EXCEPT !.objs = Append(objs, o)]

\* the engine as a call finds it: the sinks have not been called yet
AtCall(S) == [S EXCEPT !.events = <<>>]

\* Calls executed one at a time: a whole submitOrder call on a new order
\* whose id, side, price, quantity and timestamp the caller chooses
SubmitOrder ==
    /\ Len(objs) < MaxOrders
    /\ \E id \in Ids, side \in Sides, price \in Prices,
          quantity \in Quantities, timestamp \in Timestamps :
            /\ Install(submitOrder(WithOrder(Order(id, side, price, quantity,
                                                   timestamp)),
                                   Len(objs) + 1))
            /\ duplicate_accepted' =
                    (duplicate_accepted \/ id \in DOMAIN orders_)
    /\ UNCHANGED <<threads, calls, last, cancelled>>
    /\ EngineStep

\* Calls executed one at a time: a whole cancelOrder call
CancelOrder ==
    /\ \E order_id \in Ids : Install(engineCancelOrder(Engine, order_id))
    /\ UNCHANGED <<threads, calls, duplicate_accepted, last, cancelled>>
    /\ EngineStep

Next == SubmitOrder \/ CancelOrder

Spec == Init /\ [][Next]_vars

\* Concurrent producers (the thread pool tasks of runMultiThreadedSimulation
\* call submitOrder on one engine): orders carry distinct ids and are stamped
\* in the order they are constructed.  The reads and writes matchOrder makes
\* outside book_mutex_ (Order::remaining_quantity_, trades_) are unsynchronised;
\* the steps below interleave them statement by statement, which is one of
\* the outcomes such a race can have.
CallsOf(t) == Cardinality({i \in 1..Len(calls) : calls[i].thread = t})

CallSubmit(t) ==
    /\ threads[t].pc = "idle"
    /\ CallsOf(t) < MaxCalls
    /\ Len(objs) < MaxOrders
    /\ \E side \in Sides, price \in Prices, quantity \in Quantities :
        LET h == Len(objs) + 1
        IN  /\ objs' = Append(objs, Order(h, side, price, quantity, h))
            /\ threads' = [threads EXCEPT ![t] = StartSubmit(h)]
            /\ calls' = Append(calls, [op |-> "submit", arg |-> h, thread |-> t])
    /\ events' = <<>>
    /\ UNCHANGED <<bids_, asks_, orders_, trades_, trade_count_,
                   total_volume_, total_value_, duplicate_accepted,
                   trade_callback_, order_callback_, last, cancelled>>
    /\ EngineStep

\* the next step of the submitOrder call thread t is in
Step(t) ==
    /\ threads[t].pc # "idle"
    /\ LET r == SubmitStep(Engine, threads[t])
       IN  /\ Install(r.S)
           /\ threads' = [threads EXCEPT ![t] = r.L]
    /\ UNCHANGED <<calls, duplicate_accepted, last, cancelled>>
    /\ EngineStep

CallCancel(t) ==
    /\ threads[t].pc = "idle"
    /\ CallsOf(t) < MaxCalls
    /\ \E order_id \in 1..Len(objs) :
        LET r == cancelCall(AtCall(Engine), order_id, 0)
        IN  /\ Install(r.S)
            /\ calls' = Append(calls, [op |-> "cancel", arg |-> order_id,
                                       thread |-> t])
            /\ cancelled' = IF r.result = "false" THEN cancelled
                            ELSE cancelled \cup {orders_[order_id]}
    /\ UNCHANGED <<threads, duplicate_accepted, last>>
    /\ EngineStep

NextConc == \E t \in Threads : CallSubmit(t) \/ Step(t) \/ CallCancel(t)

SpecConc == Init /\ [][NextConc]_vars

\* Calls executed one at a time on an engine with both sinks installed
\* (setTradeCallback, setOrderCallback); orders are stamped with the clock
\* when they are constructed, as main.cpp stamps them.
\*   SpecApi : the caller chooses the ids; prices and quantities are
\*             positive; the sinks return.
\*   SpecZero: price and quantity are any uint64_t, zero included; the
\*             caller numbers the orders 1, 2, ... as main.cpp does.
\*   SpecFail: a sink may raise; orders numbered 1, 2, ...
ApiPrices == 0..MaxPrice

ApiQuantities == 0..MaxQty

\* which sink call of a submitOrder raises: none, or one of the first
SinkFails == 0..MaxSinkFail

InitApi ==
    /\ objs = <<>>
    /\ bids_ = EmptyMap
    /\ asks_ = EmptyMap
    /\ orders_ = EmptyMap
    /\ trades_ = <<>>
    /\ trade_count_ = 0
    /\ total_volume_ = 0
    /\ total_value_ = 0
    /\ threads = [t \in Threads |-> IdleThread]
    /\ calls = <<>>
    /\ duplicate_accepted = FALSE
    /\ trade_callback_ = TRUE
    /\ order_callback_ = TRUE
    /\ events = <<>>
    /\ last = NoCall
    /\ cancelled = {}
    /\ moments = NoMoments
    /\ pool = NoPool
    /\ cli = NoRun
    /\ csv = NoCsv

\* the id of the next order of a caller who numbers the orders 1, 2, ...
NextId == {Len(objs) + 1}

\* submitOrder(order) on a new order, of an id, a price and a quantity in the
\* given sets, the sink call numbered by one of fails raising
ApiSubmit(ids, prices, quantities, fails) ==
    /\ Len(objs) < MaxOrders
    /\ \E id \in ids, side \in Sides, price \in prices,
          quantity \in quantities, sink_fail \in fails :
        LET h == Len(objs) + 1
            order == Order(id, side, price, quantity, h)
            r == RunCall(AtCall(WithOrder(order)),
                         [StartSubmit(h) EXCEPT !.sink_fail = sink_fail])
        IN  /\ Install(r.S)
            /\ last' = [op |-> "submit", arg |-> h, result |-> r.L.result]
            /\ duplicate_accepted' =
                    (duplicate_accepted \/ id \in DOMAIN orders_)
    /\ UNCHANGED <<threads, calls, cancelled>>
    /\ EngineStep

\* submitOrder(nullptr)
ApiSubmitNull ==
    /\ last' = [op |-> "submit", arg |-> NoOrder, result |-> "false"]
    /\ events' = <<>>
    /\ UNCHANGED <<objs, bids_, asks_, orders_, trades_, trade_count_,
                   total_volume_, total_value_, threads, calls,
                   duplicate_accepted, trade_callback_, order_callback_,
                   cancelled>>
    /\ EngineStep

\* cancelOrder(order_id), its sink call raising when 1 is among fails
ApiCancel(fails) ==
    /\ \E order_id \in Ids, sink_fail \in fails \cap {0, 1} :
        LET r == cancelCall(AtCall(Engine), order_id, sink_fail)
        IN  /\ Install(r.S)
            /\ last' = [op |-> "cancel", arg |-> order_id,
                        result |-> r.result]
            /\ cancelled' = IF r.result = "false" THEN cancelled
                            ELSE cancelled \cup {orders_[order_id]}
    /\ UNCHANGED <<threads, calls, duplicate_accepted>>
    /\ EngineStep

NextApi ==
    \/ ApiSubmit(Ids, Prices, Quantities, {0})
    \/ ApiSubmitNull
    \/ ApiCancel({0})

SpecApi == InitApi /\ [][NextApi]_vars

NextZero ==
    \/ ApiSubmit(NextId, ApiPrices, ApiQuantities, {0})
    \/ ApiSubmitNull
    \/ ApiCancel({0})

SpecZero == InitApi /\ [][NextZero]_vars

NextFail ==
    \/ ApiSubmit(NextId, Prices, Quantities, SinkFails)
    \/ ApiCancel(SinkFails)

SpecFail == InitApi /\ [][NextFail]_vars

\* Concurrent producers on an engine with both sinks installed: a sink call
\* is a step of the calling thread like any other.
SpecSink == InitApi /\ [][NextConc]_vars

\* Calls executed one at a time on an engine without sinks, queries and
\* clear() among them; the caller numbers the orders 1, 2, ...  calls is the
\* history of the submitOrder and cancelOrder calls made since the engine was
\* constructed or cleared.
Levels == 0..MaxLevels

BookSubmit ==
    /\ Len(objs) < MaxOrders
    /\ Len(calls) < MaxBookCalls
    /\ \E side \in Sides, price \in Prices, quantity \in Quantities :
        LET h == Len(objs) + 1
            r == RunCall(WithOrder(Order(h, side, price, quantity, h)),
                         StartSubmit(h))
        IN  /\ Install(r.S)
            /\ last' = [op |-> "submit", arg |-> h, result |-> r.L.result]
            /\ calls' = Append(calls, [op |-> "submit", arg |-> h])
    /\ UNCHANGED <<threads, duplicate_accepted, cancelled>>
    /\ EngineStep

BookCancel ==
    /\ Len(calls) < MaxBookCalls
    /\ \E order_id \in 1..Len(objs) :
        LET r == cancelCall(Engine, order_id, 0)
        IN  /\ Install(r.S)
            /\ last' = [op |-> "cancel", arg |-> order_id,
                        result |-> r.result]
            /\ calls' = Append(calls, [op |-> "cancel", arg |-> order_id])
            /\ cancelled' = IF r.result = "false" THEN cancelled
                            ELSE cancelled \cup {orders_[order_id]}
    /\ UNCHANGED <<threads, duplicate_accepted>>
    /\ EngineStep

\* MatchingEngine::clear, a whole call
BookClear ==
    /\ Install(clear(Engine))
    /\ last' = [op |-> "clear", arg |-> 0, result |-> "none"]
    /\ calls' = <<>>
    /\ UNCHANGED <<threads, duplicate_accepted, cancelled>>
    /\ EngineStep

\* getOrderBook().getMarketDepth(levels): OrderBook::getMarketDepth under
\* book_mutex_
BookDepth ==
    /\ \E levels \in Levels :
        last' = [op |-> "getMarketDepth", arg |-> levels,
                 result |-> "returned",
                 depth |-> getMarketDepth(Engine, levels)]
    /\ UNCHANGED <<objs, bids_, asks_, orders_, trades_, trade_count_,
                   total_volume_, total_value_, threads, calls,
                   duplicate_accepted, trade_callback_, order_callback_,
                   events, cancelled>>
    /\ EngineStep

NextBook == BookSubmit \/ BookCancel \/ BookClear \/ BookDepth

SpecBook == Init /\ [][NextBook]_vars

\* Concurrent callers of one engine without sinks: producers as in SpecConc,
\* and readers that call getSpread and getOrderBookSnapshot.
\*
\* book_mutex_ is a std::mutex.  Every OrderBook method but toString holds
\* it from its first statement to its return, without calling out, and is
\* one step.  toString locks it and then calls getMarketDepth, which locks
\* it again: the thread that is at pc "getMarketDepth" or "blocked" owns
\* the mutex.
HoldsBook(t) == threads[t].pc \in {"getMarketDepth", "blocked"}

BookFree == \A t \in Threads : ~HoldsBook(t)

SubmitPcs == {"match", "find", "execute", "trade_sink", "reduce",
              "update_taker", "update_maker", "remove_filled",
              "filled_sink", "rest", "rest_sink"}

\* the next step of thread t, inside submitOrder, calls an OrderBook method
LocksBook(t) ==
    LET L == threads[t]
    IN  \/ L.pc = "match" /\ ~isFilled(objs[L.order])
        \/ L.pc \in {"update_taker", "update_maker"}
        \/ L.pc = "remove_filled" /\ isFilled(objs[L.best_match])
        \/ L.pc = "rest" /\ ~isFilled(objs[L.order])

\* a step of submitOrder; one that needs book_mutex_ waits for it
QuerySubmitStep(t) ==
    /\ threads[t].pc \in SubmitPcs
    /\ LocksBook(t) => BookFree
    /\ Step(t)

\* cancelOrder needs book_mutex_
QueryCancel(t) == BookFree /\ CallCancel(t)

\* getSpread() is called and runs its first statement, getBestBid()
CallSpread(t) ==
    /\ threads[t].pc = "idle"
    /\ CallsOf(t) < MaxCalls
    /\ BookFree
    /\ threads' = [threads EXCEPT ![t] =
                      [IdleThread EXCEPT !.pc = "getBestAsk",
                                         !.best_bid = getBestBid(Engine)]]
    /\ calls' = Append(calls, [op |-> "getSpread", arg |-> 0, thread |-> t])
    /\ UNCHANGED <<objs, bids_, asks_, orders_, trades_, trade_count_,
                   total_volume_, total_value_, duplicate_accepted,
                   trade_callback_, order_callback_, events, last,
                   cancelled>>
    /\ EngineStep

\* getSpread: getBestAsk(), and the value returned
SpreadStep(t) ==
    /\ threads[t].pc = "getBestAsk"
    /\ BookFree
    /\ LET best_bid == threads[t].best_bid
           best_ask == getBestAsk(Engine)
       IN  threads' = [threads EXCEPT ![t] =
                [IdleThread EXCEPT
                    !.result = "returned",
                    !.spread = IF best_bid = 0 \/ best_ask = 0 THEN 0
                               ELSE USub(best_ask, best_bid)]]
    /\ UNCHANGED <<objs, bids_, asks_, orders_, trades_, trade_count_,
                   total_volume_, total_value_, calls, duplicate_accepted,
                   trade_callback_, order_callback_, events, last,
                   cancelled>>
    /\ EngineStep

\* getOrderBookSnapshot(levels) is called: toString locks book_mutex_
CallSnapshot(t) ==
    /\ threads[t].pc = "idle"
    /\ CallsOf(t) < MaxCalls
    /\ BookFree
    /\ \E levels \in Levels :
        threads' = [threads EXCEPT ![t] =
                      [IdleThread EXCEPT !.pc = "getMarketDepth",
                                         !.levels = levels]]
    /\ calls' = Append(calls, [op |-> "getOrderBookSnapshot", arg |-> 0,
                               thread |-> t])
    /\ UNCHANGED <<objs, bids_, asks_, orders_, trades_, trade_count_,
                   total_volume_, total_value_, duplicate_accepted,
                   trade_callback_, order_callback_, events, last,
                   cancelled>>
    /\ EngineStep

\* toString calls getMarketDepth, whose first statement locks book_mutex_,
\* which the calling thread owns.  Locking a std::mutex one owns is
\* undefined: the thread waits for itself for ever, or lock() throws
\* std::system_error and the exception leaves toString (unlocking on the
\* way), or the lock is granted and toString returns its text.
SnapshotStep(t) ==
    /\ threads[t].pc = "getMarketDepth"
    /\ \/ threads' = [threads EXCEPT ![t].pc = "blocked"]
       \/ threads' = [threads EXCEPT ![t] = Raised]
       \/ threads' = [threads EXCEPT ![t] =
                [IdleThread EXCEPT
                    !.result = "returned",
                    !.text = toString(Engine, threads[t].levels)]]
    /\ UNCHANGED <<objs, bids_, asks_, orders_, trades_, trade_count_,
                   total_volume_, total_value_, calls, duplicate_accepted,
                   trade_callback_, order_callback_, events, last,
                   cancelled>>
    /\ EngineStep

\* producers and callers of getSpread
NextSpread ==
    \E t \in Threads :
        \/ CallSubmit(t) \/ QuerySubmitStep(t) \/ QueryCancel(t)
        \/ CallSpread(t) \/ SpreadStep(t)

SpecSpread == Init /\ [][NextSpread]_vars

\* producers and callers of getOrderBookSnapshot
NextSnapshot ==
    \E t \in Threads :
        \/ CallSubmit(t) \/ QuerySubmitStep(t) \/ QueryCancel(t)
        \/ CallSnapshot(t) \/ SnapshotStep(t)

SpecSnapshot == Init /\ [][NextSnapshot]_vars

\* ------------------------------------------------------------ statistics
\* Producers and callers of getMarketStats.  The three counters are
\* std::atomic; executeTrade adds to them one after the other, and
\* getMarketStats loads them one after the other, with no lock around
\* either, so the loads of one thread interleave with the additions of
\* another.

\* executeTrade up to trade_count_.fetch_add(1): the trade is in trades_ and
\* counted, the two other counters are as they were
executeTrade_count(S, L) ==
    [M_execute(S, L).S EXCEPT !.total_volume_ = S.total_volume_,
                              !.total_value_ = S.total_value_]

\* executeTrade: total_volume_.fetch_add(trade_quantity)
executeTrade_volume(S, L) ==
    [S EXCEPT !.total_volume_ = UAdd(@, L.trade_quantity)]

\* executeTrade: total_value_.fetch_add(trade_price * trade_quantity)
executeTrade_value(S, L) ==
    [S EXCEPT !.total_value_ = UAdd(@, UMul(L.best_price, L.trade_quantity))]

\* getMarketStats: if (trade_count_.load() > 0)
getMarketStats_if(S) == S.trade_count_ > 0

\* a step of submitOrder; executeTrade stops after trade_count_.fetch_add
StatsSubmitStep(t) ==
    /\ threads[t].pc \in SubmitPcs
    /\ LET r == SubmitStep(Engine, threads[t])
       IN  IF threads[t].pc = "execute"
           THEN /\ Install(executeTrade_count(Engine, threads[t]))
                /\ threads' = [threads EXCEPT ![t] =
                                 [r.L EXCEPT !.pc = "total_volume_"]]
           ELSE /\ Install(r.S)
                /\ threads' = [threads EXCEPT ![t] = r.L]
    /\ UNCHANGED <<calls, duplicate_accepted, last, cancelled>>
    /\ EngineStep

ExecuteVolume(t) ==
    /\ threads[t].pc = "total_volume_"
    /\ Install(executeTrade_volume(Engine, threads[t]))
    /\ threads' = [threads EXCEPT ![t].pc = "total_value_"]
    /\ UNCHANGED <<calls, duplicate_accepted, last, cancelled>>
    /\ EngineStep

ExecuteValue(t) ==
    /\ threads[t].pc = "total_value_"
    /\ Install(executeTrade_value(Engine, threads[t]))
    /\ threads' = [threads EXCEPT ![t].pc = AfterExecute(Engine)]
    /\ UNCHANGED <<calls, duplicate_accepted, last, cancelled>>
    /\ EngineStep

\* getMarketStats() is called and runs to its if: the counters and the book
\* are read for the text, nothing is written; the call returns when
\* trade_count_ is 0
CallStats(t) ==
    /\ threads[t].pc = "idle"
    /\ CallsOf(t) < MaxCalls
    /\ threads' = [threads EXCEPT ![t] =
                      IF getMarketStats_if(Engine)
                      THEN [IdleThread EXCEPT !.pc = "divide"]
                      ELSE [IdleThread EXCEPT !.result = "returned"]]
    /\ calls' = Append(calls, [op |-> "getMarketStats", arg |-> 0,
                               thread |-> t])
    /\ UNCHANGED <<objs, bids_, asks_, orders_, trades_, trade_count_,
                   total_volume_, total_value_, duplicate_accepted,
                   trade_callback_, order_callback_, events, last,
                   cancelled>>
    /\ EngineStep

\* getMarketStats: total_value_.load() / total_volume_.load(), a division of
\* uint64_t.  By zero it is undefined: the process is stopped by the
\* signal the division raises, or the division yields 0 and the call
\* returns.
StatsDivide(t) ==
    /\ threads[t].pc = "divide"
    /\ IF total_volume_ = 0
       THEN \/ threads' = [threads EXCEPT ![t] =
                            [IdleThread EXCEPT !.pc = "stopped",
                                               !.result = "signal"]]
            \/ threads' = [threads EXCEPT ![t] =
                            [IdleThread EXCEPT !.result = "returned"]]
       ELSE threads' = [threads EXCEPT ![t] =
                            [IdleThread EXCEPT
                                !.result = "returned",
                                !.average = total_value_ \div total_volume_]]
    /\ UNCHANGED <<objs, bids_, asks_, orders_, trades_, trade_count_,
                   total_volume_, total_value_, calls, duplicate_accepted,
                   trade_callback_, order_callback_, events, last,
                   cancelled>>
    /\ EngineStep

NextStats ==
    \E t \in Threads :
        \/ CallSubmit(t) \/ StatsSubmitStep(t)
        \/ ExecuteVolume(t) \/ ExecuteValue(t)
        \/ CallStats(t) \/ StatsDivide(t)

SpecStats == Init /\ [][NextStats]_vars

\* ---------------------------------------------------------------- CSV log
\* Producers on an engine whose CSV logging the owner switches on and off
\* between their calls, as main.cpp switches it on before it starts them.
\* A row of csv_file_ is the header, <<"header">>, or the four numbers of a
\* trade (the wall-clock text in front of them is left out).

\* MatchingEngine::setCSVLogging, a whole call: the flag, then under
\* csv_mutex_ the file is opened (the header written to an empty file) or
\* closed; opens tells whether csv_file_.open succeeds
setCSVLogging(C, enable, opens) ==
    IF enable
    THEN [C EXCEPT !.csv_logging_enabled_ = TRUE,
                   !.is_open = opens,
                   !.rows = IF opens /\ C.rows = <<>> THEN << <<"header">> >>
                            ELSE C.rows]
    ELSE [C EXCEPT !.csv_logging_enabled_ = FALSE, !.is_open = FALSE]

\* logTradeToCSV: std::lock_guard<std::mutex> lock(csv_mutex_) by thread t
logTradeToCSV_lock(C, t) == [C EXCEPT !.csv_mutex_ = t]

\* logTradeToCSV leaving without giving csv_mutex_ back
logTradeToCSV_write_KeepsMutex(C, trade) == [C EXCEPT !.rows = IF C.is_open THEN Append(@, <<trade.buy_order_id, trade.sell_order_id, trade.price, trade.quantity>>) ELSE @]

\* logTradeToCSV under csv_mutex_: the row is written when the file is open,
\* and the lock_guard gives the mutex back
logTradeToCSV_write(C, trade) ==
    [C EXCEPT !.rows = IF C.is_open
                       THEN Append(@, <<trade.buy_order_id,
                                        trade.sell_order_id,
                                        trade.price, trade.quantity>>)
                       ELSE @,
              !.csv_mutex_ = 0]

\* a step of the engine that may change the CSV log
CsvStep(C) == csv' = C /\ Observe /\ UNCHANGED <<pool, cli>>

\* setCSVLogging(!csv_logging_enabled_) called while no producer runs
SetCSVLogging ==
    /\ \A t \in Threads : threads[t].pc = "idle"
    /\ csv.csv_mutex_ = 0
    /\ UNCHANGED <<objs, bids_, asks_, orders_, trades_, trade_count_,
                   total_volume_, total_value_, threads, calls,
                   duplicate_accepted, trade_callback_, order_callback_,
                   events, last, cancelled>>
    /\ \E opens \in BOOLEAN :
        CsvStep(setCSVLogging(csv, ~csv.csv_logging_enabled_, opens))

\* a step of submitOrder; executeTrade goes on to logTradeToCSV
CsvSubmitStep(t) ==
    /\ threads[t].pc \in SubmitPcs
    /\ LET r == SubmitStep(Engine, threads[t])
       IN  /\ Install(r.S)
           /\ threads' = [threads EXCEPT ![t] =
                            IF threads[t].pc = "execute"
                            THEN [r.L EXCEPT !.pc = "logTradeToCSV"]
                            ELSE r.L]
    /\ UNCHANGED <<calls, duplicate_accepted, last, cancelled>>
    /\ CsvStep(csv)

\* logTradeToCSV: it returns at once when logging is disabled, and otherwise
\* waits for csv_mutex_ and takes it
LogTradeLock(t) ==
    /\ threads[t].pc = "logTradeToCSV"
    /\ IF ~csv.csv_logging_enabled_
       THEN /\ threads' = [threads EXCEPT ![t].pc = AfterExecute(Engine)]
            /\ CsvStep(csv)
       ELSE /\ csv.csv_mutex_ = 0
            /\ threads' = [threads EXCEPT ![t].pc = "csv_file_"]
            /\ CsvStep(logTradeToCSV_lock(csv, t))
    /\ UNCHANGED <<objs, bids_, asks_, orders_, trades_, trade_count_,
                   total_volume_, total_value_, calls, duplicate_accepted,
                   trade_callback_, order_callback_, events, last,
                   cancelled>>

\* logTradeToCSV: the write under csv_mutex_ and the return to executeTrade
LogTradeWrite(t) ==
    /\ threads[t].pc = "csv_file_"
    /\ threads' = [threads EXCEPT ![t].pc = AfterExecute(Engine)]
    /\ CsvStep(logTradeToCSV_write(csv, LocalTrade(Engine, threads[t])))
    /\ UNCHANGED <<objs, bids_, asks_, orders_, trades_, trade_count_,
                   total_volume_, total_value_, calls, duplicate_accepted,
                   trade_callback_, order_callback_, events, last,
                   cancelled>>

\* a step of a producer that is inside submitOrder
CsvThreadStep(t) == CsvSubmitStep(t) \/ LogTradeLock(t) \/ LogTradeWrite(t)

NextCsv ==
    \/ SetCSVLogging
    \/ \E t \in Threads : CallSubmit(t) \/ CsvThreadStep(t)

SpecCsv == Init /\ [][NextCsv]_vars

\* ------------------------------------------------------------- ThreadPool
\* The pool is the record pool: tasks_ (the queue, of task numbers), stop_,
\* the two counters, and per worker thread its place in worker() and the
\* task it took.  queue_mutex_ is held for a few statements at a time, which
\* are one step.  condition_ is waited on with a predicate, under the mutex
\* that guards every change of the predicate, so a waiting worker goes on
\* exactly when the predicate holds.  History: made (every task handed to
\* the pool, and whether it was accepted), finished (the tasks whose body
\* has run to its end), and per client the call it is in and the tasks that
\* had been accepted when it made the call.
Workers == 1..NumWorkers
Clients == 1..NumClients

IdleClient == [pc |-> "idle", done |-> "none", result |-> "none", seen |-> {}]

\* ThreadPool::ThreadPool: the workers are started
NewPool ==
    [constructed |-> TRUE, tasks_ |-> <<>>, stop_ |-> FALSE,
     tasks_submitted_ |-> 0, tasks_completed_ |-> 0,
     workers |-> [w \in Workers |-> [pc |-> "wait", task |-> 0]],
     made |-> <<>>, finished |-> {},
     executions |-> [i \in 1..MaxTasks |-> 0],
     clients |-> [c \in Clients |-> IdleClient]]

\* the tasks the pool accepted
Accepted(P) == {i \in 1..Len(P.made) : P.made[i].accepted}

\* the body of a task handed to the pool: what it is wrapped in, and whether
\* the function throws a std::exception
Task(kind, throws) == [kind |-> kind, throws |-> throws, accepted |-> FALSE]

\* ThreadPool::submit by client c
submit(P, c, throws) ==
    LET id == Len(P.made) + 1
        task == Task("packaged_task", throws)
    IN  IF P.stop_
        THEN [P EXCEPT !.made = Append(P.made, task),
                       !.clients[c] = [IdleClient EXCEPT
                                          !.done = "submit",
                                          !.result = "runtime_error"]]
        ELSE [P EXCEPT !.made = Append(P.made,
                                       [task EXCEPT !.accepted = TRUE]),
                       !.tasks_ = Append(P.tasks_, id),
                       !.tasks_submitted_ = UAdd(P.tasks_submitted_, 1),
                       !.clients[c] = [IdleClient EXCEPT
                                          !.done = "submit",
                                          !.result = "future"]]

\* submitDetached that does not look at stop_
submitDetached_IgnoresStop(P, c, throws) == [P EXCEPT !.made = Append(P.made, [Task("bind", throws) EXCEPT !.accepted = TRUE]), !.tasks_ = Append(P.tasks_, Len(P.made) + 1), !.tasks_submitted_ = UAdd(P.tasks_submitted_, 1), !.clients[c] = [IdleClient EXCEPT !.done = "submitDetached", !.result = "void"]]

\* ThreadPool::submitDetached by client c
submitDetached(P, c, throws) ==
    LET id == Len(P.made) + 1
        task == Task("bind", throws)
        returned == [IdleClient EXCEPT !.done = "submitDetached",
                                       !.result = "void"]
    IN  IF P.stop_
        THEN [P EXCEPT !.made = Append(P.made, task),
                       !.clients[c] = returned]
        ELSE [P EXCEPT !.made = Append(P.made,
                                       [task EXCEPT !.accepted = TRUE]),
                       !.tasks_ = Append(P.tasks_, id),
                       !.tasks_submitted_ = UAdd(P.tasks_submitted_, 1),
                       !.clients[c] = returned]

\* worker() leaving as soon as stop_ is set, tasks queued or not
worker_wait_StopFirst(P, w) == IF P.stop_ THEN [P EXCEPT !.workers[w] = [pc |-> "exited", task |-> 0]] ELSE [P EXCEPT !.tasks_ = Tail(P.tasks_), !.workers[w] = [pc |-> "task", task |-> Head(P.tasks_)]]

\* worker(): after condition_.wait, return when stopped and the queue is
\* empty, else take the front task
worker_wait(P, w) ==
    IF P.stop_ /\ P.tasks_ = <<>>
    THEN [P EXCEPT !.workers[w] = [pc |-> "exited", task |-> 0]]
    ELSE [P EXCEPT !.tasks_ = Tail(P.tasks_),
                   !.workers[w] = [pc |-> "task", task |-> Head(P.tasks_)]]

\* worker() putting the task it has called back at the end of the queue
worker_task_Requeues(P, w) == [P EXCEPT !.finished = P.finished \cup {P.workers[w].task}, !.executions[P.workers[w].task] = @ + 1, !.tasks_ = Append(P.tasks_, P.workers[w].task), !.workers[w] = IF P.made[P.workers[w].task].kind = "bind" /\ P.made[P.workers[w].task].throws THEN [pc |-> "wait", task |-> 0] ELSE [pc |-> "count", task |-> P.workers[w].task]]

\* worker(): task().  A packaged_task keeps what its function throws for the
\* future; what a bound function throws reaches the catch clause, which
\* skips the count.  executions counts the calls of each task.
worker_task(P, w) ==
    LET id == P.workers[w].task
        caught == P.made[id].kind = "bind" /\ P.made[id].throws
    IN  [P EXCEPT !.finished = P.finished \cup {id},
                  !.executions[id] = @ + 1,
                  !.workers[w] = IF caught THEN [pc |-> "wait", task |-> 0]
                                 ELSE [pc |-> "count", task |-> id]]

\* worker(): tasks_completed_.fetch_add(1)
worker_count(P, w) ==
    [P EXCEPT !.tasks_completed_ = UAdd(P.tasks_completed_, 1),
              !.workers[w] = [pc |-> "wait", task |-> 0]]

\* the call of client c begins: the tasks accepted so far
Calling(P, c, pc) ==
    [P EXCEPT !.clients[c] = [IdleClient EXCEPT !.pc = pc,
                                                !.seen = Accepted(P)]]

\* the call of client c returns
ReturnFrom(P, c, op) ==
    [P EXCEPT !.clients[c] = [P.clients[c] EXCEPT !.pc = "idle",
                                                  !.done = op]]

\* ThreadPool::stop: stop_.store(true) under queue_mutex_, notify_all
stop_store(P, c) == [Calling(P, c, "join") EXCEPT !.stop_ = TRUE]

\* ThreadPool::waitForAll: the loop ends when getPendingTaskCount() is 0
waitForAll_done(P) == Len(P.tasks_) = 0

\* a step of the pool leaves the engine and the process alone
PoolStep(P) ==
    /\ pool' = P
    /\ UNCHANGED <<objs, bids_, asks_, orders_, trades_, trade_count_,
                   total_volume_, total_value_, threads, calls,
                   duplicate_accepted, trade_callback_, order_callback_,
                   events, last, cancelled, moments, cli, csv>>

Submit(c) ==
    /\ pool.clients[c].pc = "idle"
    /\ Len(pool.made) < MaxTasks
    /\ \E throws \in BOOLEAN : PoolStep(submit(pool, c, throws))

SubmitDetached(c) ==
    /\ pool.clients[c].pc = "idle"
    /\ Len(pool.made) < MaxTasks
    /\ \E throws \in BOOLEAN : PoolStep(submitDetached(pool, c, throws))

WorkerWait(w) ==
    /\ pool.workers[w].pc = "wait"
    /\ pool.stop_ \/ pool.tasks_ # <<>>
    /\ PoolStep(worker_wait(pool, w))

WorkerTask(w) ==
    /\ pool.workers[w].pc = "task"
    /\ PoolStep(worker_task(pool, w))

WorkerCount(w) ==
    /\ pool.workers[w].pc = "count"
    /\ PoolStep(worker_count(pool, w))

\* waitForAll() is called
CallWaitForAll(c) ==
    /\ pool.clients[c].pc = "idle"
    /\ PoolStep(Calling(pool, c, "waitForAll"))

\* waitForAll: the loop test that ends the loop (one that does not changes
\* nothing)
WaitForAllReturn(c) ==
    /\ pool.clients[c].pc = "waitForAll"
    /\ waitForAll_done(pool)
    /\ PoolStep(ReturnFrom(pool, c, "waitForAll"))

\* stop() is called by the owner of the pool, or ~ThreadPool() calls it
CallStop(c) ==
    /\ c = 1
    /\ pool.clients[c].pc = "idle"
    /\ PoolStep(stop_store(pool, c))

\* stop: the joins; a worker that has been joined is not joinable
StopReturn(c) ==
    /\ pool.clients[c].pc = "join"
    /\ \A w \in Workers : pool.workers[w].pc = "exited"
    /\ PoolStep(ReturnFrom(pool, c, "stop"))

NextPool ==
    \/ \E c \in Clients :
            \/ Submit(c) \/ SubmitDetached(c)
            \/ CallWaitForAll(c) \/ WaitForAllReturn(c)
            \/ CallStop(c) \/ StopReturn(c)
    \/ \E w \in Workers : WorkerWait(w) \/ WorkerTask(w) \/ WorkerCount(w)

InitPool == InitEngine /\ pool = NewPool /\ cli = NoRun

SpecPool == InitPool /\ [][NextPool]_vars

\* ------------------------------------------------------------------- main
\* The process is the record cli: argv (without the program name), the
\* index i of parseArguments, the SimulationConfig, and how the process
\* ended.  History: cause, why it ended.
OptionWords == {"--help", "--benchmark", "--aggressive", "--orders",
                "--threads", "--symbol", "--no-csv", "--no-perf"}

\* what else a command line may hold: a word that is no option, a number,
\* a word that is no number
Words == OptionWords \cup {"--bogus", "7", "x"}

ArgVectors == UNION {[1..n -> Words] : n \in 0..MaxArgs}

\* SimulationConfig, the members parseArguments can set; 0 stands for the
\* default number and "AAPL" is the default symbol
DefaultConfig ==
    [num_orders |-> 0, num_threads |-> 0, symbol |-> "AAPL",
     enable_csv_logging |-> TRUE, enable_performance_monitoring |-> TRUE]

\* std::stoul: the number a word begins with; a word that begins with none
\* makes it throw std::invalid_argument
stoul(word) ==
    IF word = "7" THEN [throws |-> FALSE, value |-> 7]
    ELSE [throws |-> TRUE, value |-> 0]

\* main() has printed its banner and calls parseArguments(argc, argv)
StartRun(argv) ==
    [pc |-> "parse", argv |-> argv, i |-> 1, config |-> DefaultConfig,
     code |-> 0, cause |-> "none",
     run |-> [mode |-> "none", num_orders |-> 0, csv_logging |-> FALSE]]

\* the simulation the process has started: which one, for how many orders
\* (0: the default number of SimulationConfig) and whether it switched CSV
\* logging on
Started(R, mode, num_orders, csv_logging) ==
    [R EXCEPT !.run = [mode |-> mode, num_orders |-> num_orders,
                       csv_logging |-> csv_logging]]

\* runBenchmark(): its own SimulationConfig with 50000 orders, CSV logging on
Benchmark(R) == Started(R, "benchmark", 50000, TRUE)

\* runAggressiveSimulation(config), config as parsed so far: CSV logging is
\* switched on whatever config.enable_csv_logging says
Aggressive(R) == Started(R, "aggressive", R.config.num_orders, TRUE)

\* runMultiThreadedSimulation(config)
MultiThreaded(R) ==
    Started(R, "multi_threaded", R.config.num_orders,
            R.config.enable_csv_logging)

\* exit(code), or main returning code
Exit(R, code, cause) == [R EXCEPT !.pc = "exited", !.code = code,
                                  !.cause = cause]

\* how a simulation can end: it returns, or a std::exception leaves it
\* (std::bad_alloc for the orders, std::system_error for a thread)
RunOutcomes == {"returns", "throws"}

\* how runAggressiveSimulation can end: as a simulation, except that it
\* returns through getOrderBookSnapshot(10), whose second lock of
\* book_mutex_ blocks for ever, throws std::system_error or is granted
AggressiveOutcomes == {"returns", "throws", "blocks"}

\* parseArguments: one turn of its loop, on argv[i]; outcome is how the
\* simulation ends that the argument may start.  An exception is caught by
\* main, which returns 1.
parseArgument(R, outcome) ==
    LET arg == R.argv[R.i]
        has_value == R.i + 1 <= Len(R.argv)
    IN  IF arg = "--help" THEN Exit(R, 0, "success")
        ELSE IF arg = "--benchmark"
        THEN IF outcome = "throws" THEN Exit(Benchmark(R), 1, "error")
             ELSE Exit(Benchmark(R), 0, "success")
        ELSE IF arg = "--aggressive"
        THEN IF outcome = "blocks" THEN [Aggressive(R) EXCEPT !.pc = "blocked"]
             ELSE IF outcome = "throws" THEN Exit(Aggressive(R), 1, "error")
             ELSE Exit(Aggressive(R), 0, "success")
        ELSE IF arg = "--orders" /\ has_value
        THEN LET n == stoul(R.argv[R.i + 1])
             IN  IF n.throws THEN Exit(R, 1, "error")
                 ELSE [R EXCEPT !.config.num_orders = n.value,
                                !.i = R.i + 2]
        ELSE IF arg = "--threads" /\ has_value
        THEN LET n == stoul(R.argv[R.i + 1])
             IN  IF n.throws THEN Exit(R, 1, "error")
                 ELSE [R EXCEPT !.config.num_threads = n.value,
                                !.i = R.i + 2]
        ELSE IF arg = "--symbol" /\ has_value
        THEN [R EXCEPT !.config.symbol = R.argv[R.i + 1], !.i = R.i + 2]
        ELSE IF arg = "--no-csv"
        THEN [R EXCEPT !.config.enable_csv_logging = FALSE, !.i = R.i + 1]
        ELSE IF arg = "--no-perf"
        THEN [R EXCEPT !.config.enable_performance_monitoring = FALSE,
                       !.i = R.i + 1]
        ELSE Exit(R, 1, "unknown_option")

\* main: runMultiThreadedSimulation(config), return 0, or the catch clause
runSimulation(R, outcome) ==
    IF outcome = "throws" THEN Exit(MultiThreaded(R), 1, "error")
    ELSE Exit(MultiThreaded(R), 0, "success")

\* a step of the process leaves the engine and the pool of the model alone
CliStep(R) ==
    /\ cli' = R
    /\ UNCHANGED <<objs, bids_, asks_, orders_, trades_, trade_count_,
                   total_volume_, total_value_, threads, calls,
                   duplicate_accepted, trade_callback_, order_callback_,
                   events, last, cancelled, moments, pool, csv>>

ParseArgument ==
    /\ cli.pc = "parse"
    /\ cli.i <= Len(cli.argv)
    /\ \E outcome \in (IF cli.argv[cli.i] = "--aggressive"
                       THEN AggressiveOutcomes ELSE RunOutcomes) :
            CliStep(parseArgument(cli, outcome))

RunSimulation ==
    /\ cli.pc = "parse"
    /\ cli.i > Len(cli.argv)
    /\ \E outcome \in RunOutcomes : CliStep(runSimulation(cli, outcome))

NextCli == ParseArgument \/ RunSimulation

InitCli ==
    /\ InitEngine
    /\ pool = NoPool
    /\ \E argv \in ArgVectors : cli = StartRun(argv)

SpecCli == InitCli /\ [][NextCli]_vars

\* ------------------------------------------------------------- vocabulary
Range(q) == {q[i] : i \in DOMAIN q}

\* the positions <<side, price, i>> of the level queues
QueuePositions ==
    {<<"BUY", p, i>> : p \in DOMAIN bids_, i \in 1..MaxOrders} \cup
    {<<"SELL", p, i>> : p \in DOMAIN asks_, i \in 1..MaxOrders}

LevelAt(side, p) == IF side = "BUY" THEN bids_[p] ELSE asks_[p]

LevelKeys == {<<"BUY", p>> : p \in DOMAIN bids_} \cup
             {<<"SELL", p>> : p \in DOMAIN asks_}

\* the handles of the orders in some level queue
Queued == UNION {Range(LevelAt(k[1], k[2]).orders) : k \in LevelKeys}

\* how many queue positions hold order h
Occurrences(h) ==
    Cardinality({pos \in QueuePositions :
                    /\ pos[3] <= Len(LevelAt(pos[1], pos[2]).orders)
                    /\ LevelAt(pos[1], pos[2]).orders[pos[3]] = h})

RECURSIVE SumRemaining(_, _)
SumRemaining(q, O) ==
    IF q = <<>> THEN 0
    ELSE O[Head(q)].remaining_quantity + SumRemaining(Tail(q), O)

\* the quantity of the first n trades that name order id as buyer or seller
RECURSIVE TradedById(_, _)
TradedById(id, n) ==
    IF n = 0 THEN 0
    ELSE (IF trades_[n].buy_order_id = id \/ trades_[n].sell_order_id = id
          THEN trades_[n].quantity ELSE 0) + TradedById(id, n - 1)

\* the quantity of the first n trades order object h took part in
RECURSIVE TradedByOrder(_, _)
TradedByOrder(h, n) ==
    IF n = 0 THEN 0
    ELSE (IF trades_[n].maker = h \/ trades_[n].taker = h
          THEN trades_[n].quantity ELSE 0) + TradedByOrder(h, n - 1)

\* no two orders submitted so far carry the same id
DistinctIds ==
    \A i, j \in 1..Len(objs) : i # j => objs[i].id # objs[j].id

\* ------------------------------------------------------------------ claims
\* C1: price-time priority.  Whatever timestamps the orders carry, the maker
\* of every trade is the order at the head of the queue of the best opposing
\* level when the trade is emitted (the earliest accepted order at the best
\* opposing price).  Stated for runs whose orders carry distinct ids, where
\* every queued order is live.
C1_PriceTimePriority ==
    DistinctIds =>
        \A n \in 1..Len(trades_) : trades_[n].maker = trades_[n].fifo_head

\* C2: pricing rule.  The two sides of every trade are a buy and a sell with
\* buy limit >= sell limit, and the trade's price is the posted price of the
\* resting order.
C2_PricingRule ==
    \A n \in 1..Len(trades_) :
        LET maker == objs[trades_[n].maker]
            taker == objs[trades_[n].taker]
            buy == IF taker.side = "BUY" THEN taker ELSE maker
            sell == IF taker.side = "BUY" THEN maker ELSE taker
        IN  /\ maker.side # taker.side
            /\ buy.price >= sell.price
            /\ trades_[n].price = maker.price

\* C2 witness: a trade between an incoming order and a resting order posted
\* at a different price, executed at the resting order's price.
C2_Witness ==
    \E n \in 1..Len(trades_) :
        /\ objs[trades_[n].taker].price # objs[trades_[n].maker].price
        /\ trades_[n].price = objs[trades_[n].maker].price

\* C3: no resting cross.  After any call completes, when both sides of the
\* book are non-empty the best ask is strictly greater than the best bid.
C3_NoRestingCross ==
    (DOMAIN bids_ # {} /\ DOMAIN asks_ # {}) =>
        SetMin(DOMAIN asks_) > SetMax(DOMAIN bids_)

\* C4: aggregate consistency.  Every level present in bids_ or asks_ has a
\* non-empty queue and a total_quantity equal to the sum of the remaining
\* quantities of the orders in its queue.
C4_AggregateConsistency ==
    \A k \in LevelKeys :
        LET level == LevelAt(k[1], k[2])
        IN  /\ level.orders # <<>>
            /\ level.total_quantity = SumRemaining(level.orders, objs)

\* C5: index consistency.  Every id of the index refers to an order that is
\* in exactly one queue position, in the level of its own side and price;
\* every queued order is the order the index holds for its id.
C5_IndexConsistency ==
    /\ \A id \in DOMAIN orders_ :
        LET h == orders_[id]
        IN  /\ Occurrences(h) = 1
            /\ <<objs[h].side, objs[h].price>> \in LevelKeys
            /\ h \in Range(LevelAt(objs[h].side, objs[h].price).orders)
    /\ \A h \in Queued :
        /\ objs[h].id \in DOMAIN orders_
        /\ orders_[objs[h].id] = h

\* C6 as claimed: conservation of quantity counted by id.  For every resting
\* order, original quantity = remaining quantity + the quantities of the
\* trades of the log that name its id.  Stated for runs in which no order
\* was submitted under an id the index held.
C6_ConservationById ==
    ~duplicate_accepted =>
        \A h \in Queued :
            objs[h].quantity =
                objs[h].remaining_quantity
                    + TradedById(objs[h].id, Len(trades_))

\* C6 amended: conservation of quantity counted by participation.  For every
\* resting order, original quantity = remaining quantity + the quantities of
\* the trades that order itself took part in.
C6_ConservationByOrder ==
    \A h \in Queued :
        objs[h].quantity =
            objs[h].remaining_quantity + TradedByOrder(h, Len(trades_))

\* C6 witness: a partially filled order rests in the book.
C6_Witness ==
    \E h \in Queued :
        /\ TradedByOrder(h, Len(trades_)) > 0
        /\ objs[h].remaining_quantity > 0

\* ------------------------------------------------- claims under concurrency
\* thread t is inside matchOrder, after its first snapshot of the book and
\* before its order is filled or rested
InsideSubmit(t) ==
    threads[t].pc \in {"find", "execute", "reduce", "update_taker",
                       "update_maker", "remove_filled"}

\* C7: atomic submission.  While a thread is inside submitOrder and takes no
\* step, no step of another thread changes the book.
C7_AtomicSubmission ==
    [][\A t \in Threads :
          (InsideSubmit(t) /\ threads'[t] = threads[t]) =>
              (bids_' = bids_ /\ asks_' = asks_ /\ orders_' = orders_)]_vars

\* every call issued has returned
AllReturned == \A t \in Threads : threads[t].pc = "idle"

\* every thread has issued its MaxCalls calls and all have returned
AllJoined == AllReturned /\ \A t \in Threads : CallsOf(t) = MaxCalls

\* what a reader of the engine sees: the levels with the ids and remaining
\* quantities of their orders, the ids of the index, the set of trades
LevelView(S, price_map) ==
    [p \in DOMAIN price_map |->
        [total_quantity |-> price_map[p].total_quantity,
         orders |-> [i \in 1..Len(price_map[p].orders) |->
                        <<S.objs[price_map[p].orders[i]].id,
                          S.objs[price_map[p].orders[i]].remaining_quantity>>]]]

TradeView(S) ==
    {[buy_order_id |-> S.trades_[n].buy_order_id,
      sell_order_id |-> S.trades_[n].sell_order_id,
      price |-> S.trades_[n].price,
      quantity |-> S.trades_[n].quantity] : n \in 1..Len(S.trades_)}

Outcome(S) ==
    [bids |-> LevelView(S, S.bids_), asks |-> LevelView(S, S.asks_),
     index |-> DOMAIN S.orders_, trades |-> TradeView(S)]

\* the engine as constructed, with the Order objects of the run as their
\* callers built them
FreshEngine ==
    [objs |-> [h \in 1..Len(objs) |->
                  [objs[h] EXCEPT !.remaining_quantity = objs[h].quantity]],
     bids_ |-> EmptyMap, asks_ |-> EmptyMap, orders_ |-> EmptyMap,
     trades_ |-> <<>>, trade_count_ |-> 0, total_volume_ |-> 0,
     total_value_ |-> 0, trade_callback_ |-> trade_callback_,
     order_callback_ |-> order_callback_, events |-> <<>>]

\* the calls cs[order[1]], cs[order[2]], ... executed one at a time
RECURSIVE RunCalls(_, _, _, _)
RunCalls(S, cs, order, k) ==
    IF k > Len(cs) THEN S
    ELSE LET c == cs[order[k]]
             S1 == IF c.op = "submit" THEN submitOrder(S, c.arg)
                                      ELSE engineCancelOrder(S, c.arg)
         IN  RunCalls(S1, cs, order, k + 1)

Orderings(n) ==
    {f \in [1..n -> 1..n] : \A i, j \in 1..n : i # j => f[i] # f[j]}

\* C8: total order on operations.  When all calls have returned, the book
\* and the set of trades are those of the same calls executed one at a time
\* in some order.
C8_Serializable ==
    AllReturned =>
        \E order \in Orderings(Len(calls)) :
            Outcome(RunCalls(FreshEngine, calls, order, 1)) = Outcome(Engine)

\* C9: invariants under concurrency.  After every thread has issued its
\* calls (orders with distinct ids) and all calls have returned, the book has
\* no resting cross, every level's total_quantity is the sum of its orders'
\* remaining quantities, and the index and the queues hold the same orders.
C9_InvariantsAfterJoin ==
    AllJoined =>
        /\ C3_NoRestingCross
        /\ C4_AggregateConsistency
        /\ C5_IndexConsistency

\* C10: no over-fill under concurrency.  The quantities of the trades that
\* name an order never sum to more than the order's original quantity.
C10_NoOverFill ==
    \A h \in 1..Len(objs) :
        TradedById(objs[h].id, Len(trades_)) <= objs[h].quantity

\* ------------------------------------------------------- claims about sinks
\* thread t is in a sink call: at the call of the trade callback, or of the
\* order callback for a filled resting order or for the order that rests
InSink(t) == threads[t].pc \in {"trade_sink", "filled_sink", "rest_sink"}

\* C11: sinks run under the book lock.  While a thread is in a sink call, no
\* step of another thread changes the book.
C11_SinksUnderLock ==
    [][\A t \in Threads :
          (InSink(t) /\ threads'[t] = threads[t]) =>
              (bids_' = bids_ /\ asks_' = asks_ /\ orders_' = orders_)]_vars

\* ----------------------------------------- claims about calls, one at a time
\* the latest call was a submitOrder of an order, and it returned true
Submitted == last.op = "submit" /\ last.result = "true"

\* the latest call was a cancelOrder that returned true
Cancelled == last.op = "cancel" /\ last.result = "true"

\* the order callback was called, during the latest call, with order h
OrderEvent(h) == {e \in Range(events) : e.sink = "order" /\ e.order = h}

\* the trades of the log in which order h was the incoming order
TradesOf(h) == {n \in 1..Len(trades_) : trades_[n].taker = h}

\* the order callback is called with the order that rests, remaining > 0
RestEvent ==
    (Submitted /\ last.arg \in Queued) =>
        \E e \in OrderEvent(last.arg) : e.remaining_quantity > 0

\* the order callback is called with each resting order the call filled
MakerFilledEvent ==
    Submitted =>
        \A n \in TradesOf(last.arg) :
            isFilled(objs[trades_[n].maker]) =>
                \E e \in OrderEvent(trades_[n].maker) :
                    e.remaining_quantity = 0

\* the order callback is called with the incoming order the call filled
TakerFilledEvent ==
    (Submitted /\ TradesOf(last.arg) # {} /\ isFilled(objs[last.arg])) =>
        \E e \in OrderEvent(last.arg) : e.remaining_quantity = 0

\* the order callback is called with the order the call cancelled
CancelEvent ==
    Cancelled =>
        \E h \in cancelled : objs[h].id = last.arg /\ OrderEvent(h) # {}

\* C12: order events.  The order callback is called with the affected order
\* each time an order rests (remaining > 0), each time a resting order is
\* cancelled, and each time an incoming or a resting order becomes fully
\* filled (remaining = 0).
C12_OrderEvents ==
    RestEvent /\ MakerFilledEvent /\ TakerFilledEvent /\ CancelEvent

\* this step is a submitOrder call on a new order
SubmitStepOfNewOrder == Len(objs') = Len(objs) + 1 /\ last'.op = "submit"

\* the order this step submits
NewOrder == objs'[Len(objs')]

\* this step leaves the book, the trade log and the statistics as they were
EngineUnchanged ==
    /\ bids_' = bids_
    /\ asks_' = asks_
    /\ orders_' = orders_
    /\ trades_' = trades_
    /\ trade_count_' = trade_count_
    /\ total_volume_' = total_volume_
    /\ total_value_' = total_value_

\* a submission of quantity 0 changes nothing
ZeroQuantityInert ==
    [][(SubmitStepOfNewOrder /\ NewOrder.quantity = 0) => EngineUnchanged]_vars

\* C13: zero-quantity rejection.  A submitOrder of an order whose quantity
\* is 0 does not return true, and leaves the book, the trade log and the
\* statistics unchanged.
C13_ZeroQuantityRejected ==
    [][(SubmitStepOfNewOrder /\ NewOrder.quantity = 0) =>
            (last'.result # "true" /\ EngineUnchanged)]_vars

\* this step leaves the index, the level queues and the aggregates as they were
BookUnchanged == bids_' = bids_ /\ asks_' = asks_ /\ orders_' = orders_

\* C14: duplicate id rejection.  A submitOrder of an order whose id is in
\* the index of the book does not return true and leaves the book unchanged.
C14_DuplicateIdRejected ==
    [][(SubmitStepOfNewOrder /\ NewOrder.id \in DOMAIN orders_) =>
            (last'.result # "true" /\ BookUnchanged)]_vars

\* a best price of 0 is read only from an empty side
ZeroMeansEmpty ==
    /\ getBestBid(Engine) = 0 => DOMAIN bids_ = {}
    /\ getBestAsk(Engine) = 0 => DOMAIN asks_ = {}

\* C15: invalid price rejection.  A submitOrder of an order whose price is 0
\* (of a positive quantity: quantity 0 is C13's case) does not return true
\* and leaves the book unchanged, so that getBestBid and getBestAsk return 0
\* only when their side of the book is empty.
C15_ZeroPriceRejected ==
    [][/\ (SubmitStepOfNewOrder /\ NewOrder.price = 0
                                /\ NewOrder.quantity > 0) =>
                (last'.result # "true" /\ BookUnchanged)
       /\ ZeroMeansEmpty']_vars

\* every trade of the log is reflected in the remaining quantities of the
\* two orders it names
TradesApplied ==
    \A h \in 1..Len(objs) :
        objs[h].quantity =
            objs[h].remaining_quantity + TradedByOrder(h, Len(trades_))

\* the order of the latest submitOrder rests when it has quantity left
ResidueRests ==
    ~isFilled(objs[last.arg]) => last.arg \in Queued

\* C16: sink failure leaves the engine consistent.  In the state a
\* submitOrder leaves when a sink raised, every recorded trade is reflected
\* in the remaining quantities of both its orders and in the level
\* aggregates, and the incoming order rests if it has quantity left.
C16_SinkFailureConsistent ==
    (last.op = "submit" /\ last.result = "raised") =>
        /\ TradesApplied
        /\ C4_AggregateConsistency
        /\ ResidueRests

\* the orders submitted under an id
ObjectsOf(id) == {h \in 1..Len(objs) : objs[h].id = id}

\* no order submitted under the id is live: the id was never submitted, or
\* every order under it has been fully filled or cancelled
Terminal(id) ==
    \A h \in ObjectsOf(id) : isFilled(objs[h]) \/ h \in cancelled

\* C17: idempotent cancel.  cancelOrder on an id that was never submitted,
\* or whose orders are all filled or cancelled, returns false, calls no sink
\* and leaves the book, the trade log and the statistics unchanged; a
\* cancelOrder that follows a successful cancelOrder of the same id returns
\* false.
C17_IdempotentCancel ==
    [][\A id \in Ids :
          (last'.op = "cancel" /\ last'.arg = id) =>
              /\ Terminal(id) =>
                    (last'.result = "false" /\ events' = <<>>
                        /\ EngineUnchanged)
              /\ (last.op = "cancel" /\ last.arg = id
                        /\ last.result = "true") =>
                    last'.result = "false"]_vars

\* C17 witness: a cancelOrder has returned false for an id whose order an
\* earlier cancelOrder took out of the book.
C17_Witness ==
    /\ last.op = "cancel"
    /\ last.result = "false"
    /\ Terminal(last.arg)
    /\ \E h \in cancelled : objs[h].id = last.arg

\* the sum of the quantities of the first n trades of the log, as uint64_t
RECURSIVE SumQuantity(_)
SumQuantity(n) ==
    IF n = 0 THEN 0 ELSE UAdd(SumQuantity(n - 1), trades_[n].quantity)

\* the sum of price x quantity over the first n trades, as uint64_t
RECURSIVE SumValue(_)
SumValue(n) ==
    IF n = 0 THEN 0
    ELSE UAdd(SumValue(n - 1), UMul(trades_[n].price, trades_[n].quantity))

\* C18: statistics match the trade log.  getTradeCount is the number of
\* trades in the log, getTotalVolume the sum of their quantities and
\* getTotalValue the sum of price x quantity over them.
C18_StatisticsMatchLog ==
    /\ trade_count_ = Len(trades_) % UintMod
    /\ total_volume_ = SumQuantity(Len(trades_))
    /\ total_value_ = SumValue(Len(trades_))

\* C18 witness: the log holds a trade of a quantity above 1 at a price above
\* 1, so that count, volume and value are three different numbers.
C18_Witness ==
    /\ \E n \in 1..Len(trades_) :
            trades_[n].quantity > 1 /\ trades_[n].price > 1
    /\ trade_count_ < total_volume_
    /\ total_volume_ < total_value_

\* the calls of the trade callback during the latest call, in order
IsTradeEvent(e) == e.sink = "trade"

TradeEvents == SelectSeq(events, IsTradeEvent)

\* the trades of the latest submitOrder are the end of the log, and the trade
\* callback was called with them one by one, in the order of the log
DeliveredInLogOrder ==
    Submitted =>
        LET k == Cardinality(TradesOf(last.arg))
            first == Len(trades_) - k
        IN  /\ TradesOf(last.arg) = (first + 1)..Len(trades_)
            /\ Len(TradeEvents) = k
            /\ \A i \in 1..k :
                    TradeEvents[i].trade = TradeOf(trades_[first + i])

\* the prices of the trades of one incoming order never improve: they are
\* non-decreasing for a buy and non-increasing for a sell
PricesMonotone ==
    \A n, m \in 1..Len(trades_) :
        (n < m /\ trades_[n].taker = trades_[m].taker) =>
            IF objs[trades_[n].taker].side = "BUY"
            THEN trades_[n].price <= trades_[m].price
            ELSE trades_[n].price >= trades_[m].price

\* every trade is made at the best opposing level of the moment: no better
\* level holds an order
BestLevelFirst ==
    \A n \in 1..Len(trades_) :
        /\ trades_[n].fifo_head # NoOrder
        /\ objs[trades_[n].maker].price = objs[trades_[n].fifo_head].price

\* C19: trade emission order.  The trades of one submission are appended to
\* the log and delivered to the trade callback in the order they are
\* executed, best opposing level first: their prices are non-decreasing for
\* an incoming buy and non-increasing for an incoming sell, and each is made
\* at a level no better level than which holds an order.
C19_TradeEmissionOrder ==
    DeliveredInLogOrder /\ PricesMonotone /\ BestLevelFirst

\* C19 witness: the latest submitOrder traded at two levels, and the trade
\* callback was called for both trades.
C19_Witness ==
    /\ Submitted
    /\ Len(TradeEvents) = 2
    /\ TradeEvents[1].trade.price # TradeEvents[2].trade.price
    /\ \A n \in (Len(trades_) - 1)..Len(trades_) :
            trades_[n].taker = last.arg

\* order h is in the queue of the level of its own side and price, in no
\* other queue position, and the index holds it under its id
RestsInPlace(h) ==
    /\ <<objs[h].side, objs[h].price>> \in LevelKeys
    /\ h \in Range(LevelAt(objs[h].side, objs[h].price).orders)
    /\ Occurrences(h) = 1
    /\ getOrder(Engine, objs[h].id) = h

\* C20: rest of residue.  When submitOrder returns, the incoming order rests
\* in the book, on its own side at its own price, if and only if it has
\* quantity left; that quantity is its original quantity minus the
\* quantities of the trades made for it; a filled order is in no queue.
C20_RestOfResidue ==
    (Submitted /\ last.arg # NoOrder) =>
        LET h == last.arg
        IN  /\ ~isFilled(objs[h]) => RestsInPlace(h)
            /\ isFilled(objs[h]) => h \notin Queued
            /\ objs[h].remaining_quantity =
                    objs[h].quantity - TradedByOrder(h, Len(trades_))

\* C20 witness: the latest submitOrder traded part of its order and the
\* rest of it is in the book.
C20_Witness ==
    /\ Submitted
    /\ TradesOf(last.arg) # {}
    /\ ~isFilled(objs[last.arg])
    /\ RestsInPlace(last.arg)

\* -------------------------------------------------- claims on the whole run
\* the sum of the original quantities of the orders of H among the first n
RECURSIVE SumOriginalOf(_, _)
SumOriginalOf(H, n) ==
    IF n = 0 THEN 0
    ELSE (IF n \in H THEN objs[n].quantity ELSE 0) + SumOriginalOf(H, n - 1)

\* the sum of the remaining quantities of the orders of H among the first n
RECURSIVE SumRemainingOf(_, _)
SumRemainingOf(H, n) ==
    IF n = 0 THEN 0
    ELSE (IF n \in H THEN objs[n].remaining_quantity ELSE 0)
            + SumRemainingOf(H, n - 1)

\* the orders a successful cancelOrder took out before any fill
CancelledWithoutFill ==
    {h \in cancelled : objs[h].remaining_quantity = objs[h].quantity}

\* C21: global quantity balance.  Between calls, the original quantities of
\* all orders ever submitted add up to twice the traded volume plus the
\* remaining quantities of the resting orders plus the original quantities
\* of the orders cancelled without any fill.
C21_GlobalBalance ==
    SumOriginalOf(1..Len(objs), Len(objs)) =
        2 * total_volume_ + SumRemainingOf(Queued, Len(objs))
            + SumOriginalOf(CancelledWithoutFill, Len(objs))

\* the balance that counts what every cancelled order had left when it was
\* cancelled, in runs in which no order was submitted under an id the index
\* held
BalanceAtCancel ==
    ~duplicate_accepted =>
        SumOriginalOf(1..Len(objs), Len(objs)) =
            2 * total_volume_ + SumRemainingOf(Queued, Len(objs))
                + SumRemainingOf(cancelled, Len(objs))

\* C23: a cancelled order never trades.  In every interleaving of concurrent
\* calls, once cancelOrder(id) has returned true no trade recorded afterwards
\* names id, and the remaining quantity of the order is never reduced
\* afterwards.
C23_CancelledNeverTrades ==
    [][\A h \in cancelled :
          /\ objs'[h].remaining_quantity >= objs[h].remaining_quantity
          /\ \A n \in (Len(trades_) + 1)..Len(trades_') :
                /\ trades_'[n].buy_order_id # objs[h].id
                /\ trades_'[n].sell_order_id # objs[h].id]_vars

\* ---------------------------------------------------- claims on the queries
\* the pairs q are levels of the price map, each with the sum of the
\* remaining quantities of the orders of its queue
LevelsOf(q, price_map) ==
    \A i \in 1..Len(q) :
        /\ q[i][1] \in DOMAIN price_map
        /\ q[i][2] = SumRemaining(price_map[q[i][1]].orders, objs)

\* C25: market depth.  getMarketDepth(n) returns at most n pairs (price,
\* total quantity) per side, the bids in strictly descending price order
\* starting at the best bid and the asks in strictly ascending price order
\* starting at the best ask, each pair carrying the aggregate quantity of
\* its level, and it does not change the book.
C25_MarketDepth ==
    [][last'.op = "getMarketDepth" =>
          LET n == last'.arg
              bid_levels == last'.depth.bid_levels
              ask_levels == last'.depth.ask_levels
          IN  /\ Len(bid_levels) <= n
              /\ Len(ask_levels) <= n
              /\ \A i \in 1..(Len(bid_levels) - 1) :
                    bid_levels[i][1] > bid_levels[i + 1][1]
              /\ \A i \in 1..(Len(ask_levels) - 1) :
                    ask_levels[i][1] < ask_levels[i + 1][1]
              /\ (n > 0 /\ DOMAIN bids_ # {}) =>
                    (bid_levels # <<>>
                        /\ bid_levels[1][1] = getBestBid(Engine))
              /\ (n > 0 /\ DOMAIN asks_ # {}) =>
                    (ask_levels # <<>>
                        /\ ask_levels[1][1] = getBestAsk(Engine))
              /\ LevelsOf(bid_levels, bids_)
              /\ LevelsOf(ask_levels, asks_)
              /\ EngineUnchanged]_vars

\* C25 witness: getMarketDepth(1) has returned the better of two bid levels.
C25_Witness ==
    /\ last.op = "getMarketDepth"
    /\ last.arg = 1
    /\ Cardinality(DOMAIN bids_) = 2
    /\ Len(last.depth.bid_levels) = 1
    /\ last.depth.bid_levels[1][1] = MaxPrice

\* the engine a fresh one becomes by the calls made since the latest clear()
ReplaySinceClear ==
    RunCalls(FreshEngine, calls, [i \in 1..Len(calls) |-> i], 1)

\* C26: clear() wipes all state.  After MatchingEngine::clear the bids, the
\* asks and the order index are empty, the trade log is empty and trade
\* count, total volume and total value are 0; the calls made since then
\* leave the book, the orders, the trade log and the statistics that they
\* leave on a freshly constructed engine.
C26_ClearIsFresh ==
    /\ last.op = "clear" =>
            /\ bids_ = EmptyMap /\ asks_ = EmptyMap /\ orders_ = EmptyMap
            /\ trades_ = <<>>
            /\ trade_count_ = 0 /\ total_volume_ = 0 /\ total_value_ = 0
    /\ LET R == ReplaySinceClear
       IN  /\ R.bids_ = bids_ /\ R.asks_ = asks_ /\ R.orders_ = orders_
           /\ R.trades_ = trades_
           /\ R.trade_count_ = trade_count_
           /\ R.total_volume_ = total_volume_
           /\ R.total_value_ = total_value_
           /\ \A i \in 1..Len(calls) :
                calls[i].op = "submit" =>
                    R.objs[calls[i].arg] = objs[calls[i].arg]

\* C26 witness: clear() wiped a trade, and the order submitted after it
\* rests in an otherwise empty book.
C26_Witness ==
    /\ Len(calls) = 1
    /\ calls[1].op = "submit"
    /\ trades_ = <<>>
    /\ \E h \in 1..Len(objs) : isFilled(objs[h])
    /\ Queued = {calls[1].arg}

\* every snapshot call so far has come to its end by returning
SnapshotsReturned ==
    \A t \in Threads :
        threads[t].pc # "blocked" /\ threads[t].result # "raised"

\* C22: snapshot query terminates.  A getOrderBookSnapshot(n) call by a
\* thread that holds no lock returns the formatted text and releases
\* book_mutex_: no caller is left waiting inside it, none leaves it by an
\* exception, and the mutex is free whenever no thread is inside the call,
\* so that later submitOrder and cancelOrder calls can proceed.
C22_SnapshotTerminates ==
    /\ SnapshotsReturned
    /\ (\A t \in Threads : threads[t].pc # "getMarketDepth") => BookFree

\* the spread of a book whose sides hold the prices m[1] (bids), m[2] (asks)
SpreadAt(m) ==
    IF m[1] = {} \/ m[2] = {} THEN 0
    ELSE USub(SetMin(m[2]), SetMax(m[1]))

\* C24: spread.  The value getSpread returns is the best ask minus the best
\* bid of the book at one moment of the call when both sides held an order
\* at that moment, and 0 when a side was empty at that moment.
C24_Spread ==
    [][\A t \in Threads :
          (threads[t].pc = "getBestAsk" /\ threads'[t].pc = "idle") =>
              \E m \in moments[t] : threads'[t].spread = SpreadAt(m)]_vars

\* ------------------------------------------------ claims on the ThreadPool
\* C27: stop drains the queue.  When stop() (or the destructor) has
\* returned, every task that submit or submitDetached accepted before stop
\* was called has been executed to its end, the queue is empty and all
\* worker threads have left worker().
C27_StopDrains ==
    \A c \in Clients :
        pool.clients[c].done = "stop" =>
            /\ pool.clients[c].seen \subseteq pool.finished
            /\ pool.tasks_ = <<>>
            /\ \A w \in Workers : pool.workers[w].pc = "exited"

\* C27 witness: stop() has returned and MaxTasks tasks had been accepted
\* before it was called, one of which threw.
C27_Witness ==
    /\ pool.clients[1].done = "stop"
    /\ Cardinality(pool.clients[1].seen) = MaxTasks
    /\ pool.tasks_completed_ < pool.tasks_submitted_

\* no accepted task is one whose exception the worker catches
NoTaskThrows(P) ==
    \A i \in Accepted(P) : ~(P.made[i].kind = "bind" /\ P.made[i].throws)

\* C28: waitForAll waits for completion.  When waitForAll() returns, every
\* task accepted before the call has been executed to its end; if no task
\* was accepted after the call and no task throws, tasks_completed_ equals
\* tasks_submitted_.
C28_WaitForAllCompletes ==
    [][\A c \in Clients :
          (pool.clients[c].pc = "waitForAll"
                /\ pool'.clients[c].pc = "idle") =>
              /\ pool.clients[c].seen \subseteq pool'.finished
              /\ (Accepted(pool') = pool.clients[c].seen
                        /\ NoTaskThrows(pool')) =>
                    pool'.tasks_completed_ = pool'.tasks_submitted_]_vars

\* the tasks handed to the pool that it did not accept
Rejected(P) == (1..Len(P.made)) \ Accepted(P)

\* the tasks in the queue or in the hands of a worker
Held(P) == Range(P.tasks_) \cup {P.workers[w].task : w \in Workers}

\* C29: submission to a stopped pool.  Once stop() has set stop_, submit
\* fails with an error and submitDetached returns silently; in both cases
\* the task is not put in the queue, is never executed, and
\* tasks_submitted_ is not incremented.
C29_StoppedPoolRejects ==
    [][/\ (pool.stop_ /\ Len(pool'.made) = Len(pool.made) + 1) =>
            LET id == Len(pool'.made)
            IN  /\ \E c \in Clients :
                    /\ \A d \in Clients \ {c} :
                            pool'.clients[d] = pool.clients[d]
                    /\ pool'.clients[c].pc = "idle"
                    /\ pool'.clients[c].result =
                            (IF pool'.made[id].kind = "packaged_task"
                             THEN "runtime_error" ELSE "void")
                /\ pool'.tasks_ = pool.tasks_
                /\ pool'.tasks_submitted_ = pool.tasks_submitted_
                /\ id \in Rejected(pool')
       /\ Rejected(pool') \cap (Held(pool') \cup pool'.finished) = {}]_vars

\* C29 witness: a submit and a submitDetached have been refused by a stopped
\* pool that had accepted a task before.
C29_Witness ==
    /\ pool.constructed
    /\ pool.stop_
    /\ Accepted(pool) # {}
    /\ \E i, j \in Rejected(pool) :
            pool.made[i].kind = "packaged_task" /\ pool.made[j].kind = "bind"

\* ------------------------------------------------------- claims on main
\* C30: exit codes.  The process ends with code 0 after a successful run,
\* with 1 after an error, and with 2 when it met an unknown command-line
\* option.
C30_ExitCodes ==
    cli.pc = "exited" =>
        cli.code = (CASE cli.cause = "success" -> 0
                      [] cli.cause = "error" -> 1
                      [] cli.cause = "unknown_option" -> 2)

\* ---- C31
\* the resting orders queued at the level of order m that carry m's timestamp
\* and still have quantity to trade
EqualStamped(S, m) ==
    LET level == getPriceLevelMap(S, S.objs[m].side)[S.objs[m].price]
    IN  {o \in Range(level.orders) :
            /\ o # m
            /\ ~isFilled(S.objs[o])
            /\ S.objs[o].timestamp = S.objs[m].timestamp}

\* every choice of best_match made from (S, L) to the end of the call takes
\* the earliest accepted of the orders that carry its timestamp.  Calls run
\* one at a time and each call submits a new Order object, so the handles
\* number the orders in the order they were accepted.
RECURSIVE TieBreakAlong(_, _)
TieBreakAlong(S, L) ==
    IF L.pc = "idle" THEN TRUE
    ELSE LET r == SubmitStep(S, L)
         IN  /\ (L.pc = "find" /\ r.L.pc = "execute")
                    => \A o \in EqualStamped(S, r.L.best_match) :
                            r.L.best_match < o
             /\ TieBreakAlong(r.S, r.L)

\* the step is a submitOrder call of Spec
IsSubmitOrder == Len(objs') = Len(objs) + 1

\* the Order object the call was made with, as the caller constructed it
SubmittedOrder ==
    LET o == objs'[Len(objs')]
    IN  Order(o.id, o.side, o.price, o.quantity, o.timestamp)

\* C31: among the resting orders of one price that carry equal timestamps,
\* the one accepted into the book first is matched first: whenever a
\* submitOrder call chooses a maker, every other unfilled order queued at the
\* maker's level with the maker's timestamp was accepted after the maker.
C31_TieBreak ==
    [][IsSubmitOrder =>
          TieBreakAlong(WithOrder(SubmittedOrder),
                        StartSubmit(Len(objs) + 1))]_vars

\* a trade was made against a maker while a later accepted order with the
\* maker's timestamp rested at the same price; that order rests still
C31_Witness ==
    \E n \in 1..Len(trades_) :
        LET m == trades_[n].maker
        IN  \E o \in Queued :
                /\ m < o
                /\ o < trades_[n].taker
                /\ objs[o].side = objs[m].side
                /\ objs[o].price = objs[m].price
                /\ objs[o].timestamp = objs[m].timestamp
                /\ ~isFilled(objs[o])

\* ---- C32
\* the resting orders a trade has left partially filled as its maker
PartialMakers ==
    {m \in Queued :
        /\ 0 < objs[m].remaining_quantity
        /\ objs[m].remaining_quantity < objs[m].quantity
        /\ \E n \in 1..Len(trades_) : trades_[n].maker = m}

\* a partially filled maker is the head of the queue of its level and holds
\* what its trades have left of its quantity
AtHeadReduced ==
    \A m \in PartialMakers :
        /\ Head(LevelAt(objs[m].side, objs[m].price).orders) = m
        /\ objs[m].remaining_quantity =
                objs[m].quantity - TradedByOrder(m, Len(trades_))

\* the first trade of the step, when it is made at the level of a partially
\* filled maker that rests there, is made against that maker
NextTradeAgainstIt ==
    Len(trades_') > Len(trades_) =>
        LET maker == trades_'[Len(trades_) + 1].maker
        IN  \A m \in PartialMakers :
                (objs[m].side = objs[maker].side
                    /\ objs[m].price = objs[maker].price) => maker = m

\* C32: a partially filled maker keeps its place.  A maker a trade leaves
\* with remaining quantity > 0 stays at the head of its level queue with the
\* reduced remaining quantity, and as long as it rests (it has not been
\* cancelled) the next trade against that level is made against it.
C32_MakerKeepsPlace == [][AtHeadReduced' /\ NextTradeAgainstIt]_vars

\* ---- C33
\* order h holds what the trades logged so far have left of its quantity
ReflectsTrades(h) ==
    objs[h].quantity =
        objs[h].remaining_quantity + TradedByOrder(h, Len(trades_))

\* the aggregate of the level order h is queued at is the sum of the
\* remaining quantities of the level's queue
AggregateReflects(h) ==
    LET price_map == IF objs[h].side = "BUY" THEN bids_ ELSE asks_
    IN  objs[h].price \in DOMAIN price_map =>
            price_map[objs[h].price].total_quantity =
                SumRemaining(price_map[objs[h].price].orders, objs)

\* C33: sinks see a consistent book.  Whenever the trade callback is invoked
\* for a trade, the engine's state already reflects the trade: the remaining
\* quantities of both orders and the aggregate of the maker's level have been
\* reduced by the trade's quantity, so conservation of quantity holds.
C33_SinksSeeTrade ==
    \A t \in Threads :
        threads[t].pc = "trade_sink" =>
            /\ ReflectsTrades(threads[t].order)
            /\ ReflectsTrades(threads[t].best_match)
            /\ AggregateReflects(threads[t].best_match)

\* ---- C34
\* queue q without order h, the others in the order they had
Without(q, h) == SelectSeq(q, LAMBDA x : x # h)

\* what a level map becomes when order h leaves its level and nothing else
\* changes: the level loses h and h's remaining quantity, and is dropped
\* exactly when its queue becomes empty
AfterRemoval(price_map, h) ==
    LET p == objs[h].price
        queue == Without(price_map[p].orders, h)
    IN  IF queue = <<>>
        THEN MapErase(price_map, p)
        ELSE [price_map EXCEPT
                ![p] = [price |-> p,
                        total_quantity |->
                            price_map[p].total_quantity
                                - objs[h].remaining_quantity,
                        orders |-> queue]]

\* C34: cancel touches only its target.  A cancelOrder(id) that returns true
\* removes the order the index holds for id from the index and from the
\* queue of its level, takes its remaining quantity off the level's
\* total_quantity, drops the level if and only if it became empty, emits no
\* trade, and leaves every other order, every other level, the order of the
\* orders that remain queued and the statistics unchanged.
C34_CancelFrame ==
    [][(last'.op = "cancel" /\ last'.result = "true") =>
          LET id == last'.arg
              h == orders_[id]
          IN  /\ id \in DOMAIN orders_
              /\ orders_' = MapErase(orders_, id)
              /\ objs[h].price \in DOMAIN getPriceLevelMap(Engine, objs[h].side)
              /\ bids_' = IF objs[h].side = "BUY"
                          THEN AfterRemoval(bids_, h) ELSE bids_
              /\ asks_' = IF objs[h].side = "SELL"
                          THEN AfterRemoval(asks_, h) ELSE asks_
              /\ objs' = objs
              /\ trades_' = trades_
              /\ trade_count_' = trade_count_
              /\ total_volume_' = total_volume_
              /\ total_value_' = total_value_]_vars

\* ---- C35
\* thread t owns csv_mutex_
HoldsCsv(t) == csv.csv_mutex_ = t

\* thread t is inside submitOrder and its next step waits for nothing: every
\* step but the lock_guard of logTradeToCSV is taken as soon as the thread
\* runs, and the lock_guard is passed when csv_mutex_ is free
CanStep(t) ==
    /\ threads[t].pc # "idle"
    /\ (threads[t].pc = "logTradeToCSV" /\ csv.csv_logging_enabled_) =>
            csv.csv_mutex_ = 0

\* C35: no lock-order deadlock with the CSV sink.  The thread that owns
\* csv_mutex_ is inside logTradeToCSV, at the write to the file: it owns no
\* book_mutex_ and its next step calls no OrderBook method; so whenever a
\* producer is inside submitOrder, some producer inside submitOrder can
\* take its next step.
C35_NoLockOrderDeadlock ==
    /\ \A t \in Threads :
            HoldsCsv(t) =>
                /\ threads[t].pc = "csv_file_"
                /\ ~HoldsBook(t)
                /\ ~LocksBook(t)
    /\ (\E t \in Threads : threads[t].pc # "idle") =>
            \E t \in Threads : CanStep(t)

\* one producer owns csv_mutex_ while another, inside submitOrder too, is at
\* the lock_guard of logTradeToCSV and waits for it
C35_Witness ==
    \E t, u \in Threads :
        /\ HoldsCsv(t)
        /\ threads[u].pc = "logTradeToCSV"
        /\ csv.csv_logging_enabled_

\* ---- C36
\* the command line of the demo script and the README for the aggressive
\* simulation, for 7 orders
AggressiveDemo == <<"--aggressive", "--orders", "7", "--no-csv">>

\* the process has left parseArguments: a simulation has started, or the
\* process has exited without one
Ran == cli.pc \in {"exited", "blocked"}

\* C36: command-line options apply to the selected mode.  Invoked with
\* --aggressive --orders N --no-csv, in that order, the process runs the
\* aggressive simulation with N orders and CSV logging disabled, and the
\* run terminates.
C36_OptionsApply ==
    (cli.pc # "none" /\ cli.argv = AggressiveDemo /\ Ran) =>
        /\ cli.pc = "exited"
        /\ cli.run = [mode |-> "aggressive", num_orders |-> 7,
                      csv_logging |-> FALSE]

\* ---- C37
\* C37: every trade has a positive quantity.  In every interleaving of
\* concurrent submitOrder and cancelOrder calls, every trade in the trade
\* log has quantity >= 1 and is between two distinct orders, one a buy and
\* one a sell.
C37_PositiveTrades ==
    \A n \in 1..Len(trades_) :
        /\ trades_[n].quantity >= 1
        /\ trades_[n].taker # trades_[n].maker
        /\ objs[trades_[n].taker].side # objs[trades_[n].maker].side

\* ---- C38
\* thread t takes the step of getMarketStats that divides
Divides(t) == threads[t].pc = "divide" /\ threads'[t].pc # "divide"

\* C38: getMarketStats never divides by zero.  In every interleaving of
\* getMarketStats with concurrent submitOrder calls, whenever getMarketStats
\* has read a trade count > 0, the total volume it then divides by is > 0.
C38_NoDivisionByZero ==
    [][\A t \in Threads : Divides(t) => total_volume_ > 0]_vars

\* ---- C39
\* the tasks in the queue, the tasks a worker has taken and not yet called,
\* and the tasks that have been called
Pending(P) == Range(P.tasks_)

Running(P) == {P.workers[w].task : w \in {v \in Workers : P.workers[v].pc = "task"}}

Executed(P) == {i \in 1..MaxTasks : P.executions[i] > 0}

\* C39: the ThreadPool runs each task exactly once.  Every task accepted by
\* submit or submitDetached is in exactly one place: once in the queue, or
\* with exactly one worker that is about to call it, or called, and no task
\* is called twice; tasks_completed_ <= tasks_submitted_, tasks_submitted_
\* counts the accepted tasks, and only tasks that were called are counted
\* as completed.
C39_ExactlyOnce ==
    pool.constructed =>
        /\ Pending(pool) \cup Running(pool) \cup Executed(pool)
                = Accepted(pool)
        /\ Pending(pool) \cap Running(pool) = {}
        /\ Pending(pool) \cap Executed(pool) = {}
        /\ Running(pool) \cap Executed(pool) = {}
        /\ Cardinality(Pending(pool)) = Len(pool.tasks_)
        /\ \A v, w \in Workers :
                (v # w /\ pool.workers[v].pc \in {"task", "count"}
                       /\ pool.workers[w].pc \in {"task", "count"})
                    => pool.workers[v].task # pool.workers[w].task
        /\ \A i \in 1..MaxTasks : pool.executions[i] <= 1
        /\ pool.tasks_completed_ <= pool.tasks_submitted_
        /\ pool.tasks_submitted_ = Cardinality(Accepted(pool))
        /\ pool.tasks_completed_ <= Cardinality(Executed(pool))

\* a task waits in the queue while a worker is about to call another and a
\* third has been called
C39_Witness ==
    /\ pool.constructed
    /\ Pending(pool) # {}
    /\ Running(pool) # {}
    /\ Executed(pool) # {}

====
